---- MODULE Spec2Model ----
(***************************************************************************)
(* doc-log: the type-expression parser of doc_log/parser.py                *)
(* (_resolve_type_hints, _sanitize_type_hint) and the structural matcher   *)
(* of doc_log/types.py (_type_check_value, _type_check_nested_type).       *)
(*                                                                         *)
(* A type hint is a sequence of tokens.  A word token stands for a run of  *)
(* characters of [a-zA-Z0-9_]; the other tokens are the single characters  *)
(* "[", "]", "," and " ".  Tags (SectionItem.value) are strings.           *)
(***************************************************************************)
EXTENDS Integers, Sequences, FiniteSets, TLC

VARIABLES
    pc,         \* "hint": a type hint is given; "parsed"; "checked"; "raised"
    type_hint,  \* the type hint handed to _resolve_type_hints
    item,       \* the SectionItem tree (mutable: the matcher appends to it)
    value,      \* the runtime value of the last match
    result,     \* the SectionItemTypeResult tree of the last match
    types,      \* the Section handed to type_check_arguments
    parameters, \* the dict of keyword parameters (the call writes into it)
    arguments,  \* the tuple of positional arguments
    rtypes,     \* the Section handed to type_check_rtypes
    results,    \* the returned value handed to type_check_rtypes
    type_check_results, \* what type_check_arguments / type_check_rtypes returned
    rendered,   \* str(item): the text SectionItem.__str__ returned
    reparsed,   \* the SectionItem tree parsed from that text
    f_globals,  \* the globals of the frame parse_docstring was called from
    dialect,    \* the dialect handed to parse_docstring
    content,    \* what the docstring says: its sections and their items
    docstring,  \* _function.__doc__, as a list of lines
    signature,  \* inspect.signature(_function)
    sections,   \* what parse_docstring returned
    exported,   \* the names defined at the top level of doc_log/parser.py
    options,    \* the arguments of the decorator doc_log
    called,     \* whether the wrapper has invoked the wrapped function
    defaults,   \* the dict that is the default of parameters (one object)
    section_indexes \* what _parse_section_indexes returned

matchVars == <<type_hint, item, value, result>>
apiVars == <<types, parameters, arguments, rtypes, results, type_check_results>>
strVars == <<rendered, reparsed>>
vars == <<pc, type_hint, item, value, result,
          types, parameters, arguments, rtypes, results, type_check_results,
          rendered, reparsed, f_globals, dialect, content, docstring, signature,
          sections, exported, options, called, defaults, section_indexes>>
parserVars == <<f_globals, dialect, content, docstring, signature, sections>>
otherVars == <<exported, options, called, defaults, section_indexes>>

\* ------------------------------------------------------------------ bounds

\* Longest type hint of the exhaustive family (every token sequence).
MaxHintLen == 5
\* Most elements of a runtime container (list, tuple, dict, str, bytes).
MaxElems == 3

\* ------------------------------------------------------------------ strings

Punctuation == {"[", "]", ",", " "}

\* A token of the character class [a-zA-Z0-9\_].
IsWord(tok) == tok \notin Punctuation

RECURSIVE Join(_)
\* The string a token sequence spells.
Join(s) == IF s = <<>> THEN "" ELSE Head(s) \o Join(Tail(s))

RECURSIVE lstrip(_)
lstrip(s) == IF s # <<>> /\ Head(s) = " " THEN lstrip(Tail(s)) ELSE s

RECURSIVE rstrip(_)
rstrip(s) ==
    IF s # <<>> /\ s[Len(s)] = " " THEN rstrip(SubSeq(s, 1, Len(s) - 1)) ELSE s

\* str.strip()
strip(s) == lstrip(rstrip(s))

\* str.endswith("]")
endswith_bracket(s) == s # <<>> /\ s[Len(s)] = "]"

\* Index of the first "[" of s, 0 when there is none.
FirstOpen(s) ==
    IF \E i \in 1..Len(s) : s[i] = "["
    THEN CHOOSE i \in 1..Len(s) : s[i] = "[" /\ \A j \in 1..(i - 1) : s[j] # "["
    ELSE 0

\* re [a-zA-Z0-9\_]*(?=\[) : the leftmost match is the maximal run of word
\* characters that ends right before the first "[" (empty when the character
\* before it is no word character).  Only called when s has a "[".
container_type(s) ==
    LET k == FirstOpen(s)
        start == CHOOSE i \in 1..k :
                    /\ \A j \in i..(k - 1) : IsWord(s[j])
                    /\ \A h \in 1..(i - 1) : \E j \in h..(k - 1) : ~IsWord(s[j])
    IN SubSeq(s, start, k - 1)

\* re (?<=\[).* : everything after the first "[".
nested_types(s) == SubSeq(s, FirstOpen(s) + 1, Len(s))

\* ------------------------------------------------------------------ sanitize

NoName == "<None>"

\* typing names that are generic aliases: name -> __origin__.__name__
TypingOrigin ==
    [n \in {"Tuple", "List", "Dict"} |->
        CASE n = "Tuple" -> "tuple" [] n = "List" -> "list" [] n = "Dict" -> "dict"]

\* typing names that are _SpecialForm or TypeVar instances: kept as written
TypingSpecial == {"Union", "Optional", "NoReturn", "AnyStr"}

\* names of __builtins__ : name -> the object's __name__ (None -> NoneType)
Builtins ==
    [n \in {"int", "str", "bool", "bytes", "tuple", "list", "dict", "None"} |->
        IF n = "None" THEN "NoneType" ELSE n]

\* The globals of the module the checked function and its callers live in:
\* name -> the object's __name__.
CallerGlobals == [n \in {"Adder"} |-> "Adder"]

\* names of the calling frame's globals : name -> the object's __name__
FrameGlobals == f_globals

sanitize_type_hint(hint) ==
    IF hint \in DOMAIN TypingOrigin \cup TypingSpecial
    THEN IF hint \notin TypingSpecial THEN TypingOrigin[hint] ELSE hint
    ELSE IF hint \in DOMAIN Builtins THEN Builtins[hint]
    ELSE IF hint \in DOMAIN FrameGlobals THEN FrameGlobals[hint]
    ELSE hint

\* ------------------------------------------------------------------ parser

SectionItem(v, n, subs) == [value |-> v, name |-> n, subitems |-> subs]

RECURSIVE resolve_type_hints(_, _)
RECURSIVE resolve_loop(_, _, _, _, _)

RECURSIVE resolve_loop_every_comma(_, _, _, _, _)
\* Mutant of resolve_loop: a comma splits at any nesting level.
resolve_loop_every_comma(chars, index, nested_level, start_index, subitems) ==
    IF index > Len(chars) THEN subitems
    ELSE IF chars[index] = ","
    THEN resolve_loop_every_comma(chars, index + 1, nested_level, index + 1,
            Append(subitems,
                resolve_type_hints(
                    strip(SubSeq(chars, start_index, index - 1)), NoName)))
    ELSE resolve_loop_every_comma(chars, index + 1, nested_level,
            start_index, subitems)

\* The scan of parser.py:394-410 over chars = interior + ",", from position
\* index on (1-based), with the running _nested_level and _start_index and the
\* subitems collected so far.
resolve_loop(chars, index, nested_level, start_index, subitems) ==
    IF index > Len(chars) THEN subitems
    ELSE IF chars[index] = "," /\ nested_level = 0
    THEN resolve_loop(chars, index + 1, nested_level, index + 1,
            Append(subitems,
                resolve_type_hints(
                    strip(SubSeq(chars, start_index, index - 1)), NoName)))
    ELSE resolve_loop(chars, index + 1,
            IF chars[index] = "[" THEN nested_level + 1
            ELSE IF chars[index] = "]" THEN nested_level - 1
            ELSE nested_level,
            start_index, subitems)

\* Mutant of resolve_type_hints: Optional is rewritten while parsing, to a
\* Union with a NoneType leaf appended.
resolve_type_hints_rewriting(hint, name) ==
    LET parsed ==
          IF FirstOpen(hint) # 0
          THEN LET tag == sanitize_type_hint(Join(strip(container_type(hint))))
                   nested == nested_types(hint)
               IN IF endswith_bracket(nested)
                  THEN SectionItem(tag, name,
                          resolve_loop(SubSeq(nested, 1, Len(nested) - 1) \o <<",">>,
                                       1, 0, 1, <<>>))
                  ELSE SectionItem(tag, name, <<>>)
          ELSE SectionItem(sanitize_type_hint(Join(hint)), name, <<>>)
    IN IF parsed.value = "Optional"
       THEN SectionItem("Union", name,
                Append(parsed.subitems, SectionItem("NoneType", NoName, <<>>)))
       ELSE parsed

resolve_type_hints(hint, name) ==
    IF FirstOpen(hint) # 0
    THEN LET tag == sanitize_type_hint(Join(strip(container_type(hint))))
             nested == nested_types(hint)
         IN IF endswith_bracket(nested)
            THEN SectionItem(tag, name,
                    resolve_loop(SubSeq(nested, 1, Len(nested) - 1) \o <<",">>,
                                 1, 0, 1, <<>>))
            ELSE SectionItem(tag, name, <<>>)
    ELSE SectionItem(sanitize_type_hint(Join(hint)), name, <<>>)

\* ------------------------------------------------------------------ values

\* A runtime value: its type's __name__, its kind (what isinstance tells the
\* matcher) and its contents.  A str iterates over one-character strs, each of
\* which iterates over itself again.
Value(t, k, es, ks) == [type |-> t, kind |-> k, elems |-> es, keys |-> ks]

Scalar(t) == Value(t, "scalar", <<>>, <<>>)
Char == Value("str", "char", <<>>, <<>>)
Str(n) == Value("str", "str", [i \in 1..n |-> Char], <<>>)
Bytes(es) == Value("bytes", "bytes", es, <<>>)
ListOf(es) == Value("list", "iter", es, <<>>)
TupleOf(es) == Value("tuple", "iter", es, <<>>)
DictOf(ks, vs) == Value("dict", "dict", vs, ks)

\* type(value).__name__
TypeName(v) == v.type

\* isinstance(value, dict)
IsDict(v) == v.kind = "dict"

\* isinstance(value, Iterable)
IsIterable(v) == v.kind \in {"dict", "iter", "str", "bytes"}

\* list(value) for a non-mapping iterable
Elements(v) ==
    IF v.kind = "str" THEN [i \in 1..Len(v.elems) |-> Str(1)] ELSE v.elems

\* The globals_ mapping handed to the matcher: the names of doc_log/types.py's
\* module globals that can be written as a tag, and one caller-supplied alias
\* (Number = int).  Each name maps to the identity of the object bound to it; a
\* class is identified by its __name__.
globals_ ==
    [n \in {"Optional", "Any", "SectionItem", "Number"} |->
        CASE n = "Optional" -> "<typing.Optional>"
          [] n = "Any" -> "<typing.Any>"
          [] n = "SectionItem" -> "SectionItem"
          [] n = "Number" -> "int"]

\* ------------------------------------------------------------------ matcher

\* Mutant of type_check_value: isinstance instead of the exact type name (a
\* bool is an int).
type_check_value_isinstance(hint, v, globs) ==
    IF hint = "AnyStr" THEN v.kind \in {"str", "bytes"}
    ELSE IF hint = "NoReturn" THEN TypeName(v) = "NoneType"
    ELSE IF hint \in DOMAIN globs THEN globs[hint] = TypeName(v)
    ELSE hint = TypeName(v) \/ (hint = "int" /\ TypeName(v) = "bool")

type_check_value(hint, v, globs) ==
    IF hint = "AnyStr" THEN v.kind \in {"str", "bytes"}
    ELSE IF hint = "NoReturn" THEN TypeName(v) = "NoneType"
    ELSE IF hint \in DOMAIN globs THEN globs[hint] = TypeName(v)
    ELSE hint = TypeName(v)

SectionItemTypeResult(r, e, a, subs) ==
    [result |-> r, expected |-> e, actual |-> a, subitems |-> subs]

\* What a call of the matcher leaves behind: whether it raised (IndexError),
\* the result it returned (meaningless when it raised) and the item as the call
\* left it (the matcher appends to item._subitems in place).
Outcome(raised, res, it) == [raised |-> raised, res |-> res, item |-> it]

\* No check recorded so far has failed (used by a mutant).
AllPassedSoFar(out) ==
    \A i \in 1..Len(out.res.subitems) : out.res.subitems[i].result

RECURSIVE type_check_nested_type(_, _, _)
RECURSIVE union_loop(_, _, _, _, _)
RECURSIVE dict_loop(_, _, _, _, _)
RECURSIVE iterable_loop(_, _, _, _)

RECURSIVE union_loop_short_circuit(_, _, _, _, _)
\* Mutant of union_loop: stops at the first alternative that passes.
union_loop_short_circuit(index, v, globs, out, flag) ==
    IF index > Len(out.item.subitems) \/ flag
    THEN [out EXCEPT !.res.result = flag]
    ELSE LET sub == type_check_nested_type(out.item.subitems[index], v, globs)
             it == [out.item EXCEPT !.subitems[index] = sub.item]
         IN IF sub.raised THEN Outcome(TRUE, out.res, it)
            ELSE union_loop_short_circuit(index + 1, v, globs,
                    Outcome(FALSE,
                        [out.res EXCEPT !.subitems = Append(@, sub.res)], it),
                    flag \/ sub.res.result)

RECURSIVE dict_loop_not_folded(_, _, _, _, _)
\* Mutant of dict_loop: the checks are recorded but do not decide the result.
dict_loop_not_folded(which, vs, index, globs, out) ==
    IF index > Len(vs) THEN out
    ELSE IF which > Len(out.item.subitems) THEN Outcome(TRUE, out.res, out.item)
    ELSE LET sub == type_check_nested_type(out.item.subitems[which], vs[index], globs)
             it == [out.item EXCEPT !.subitems[which] = sub.item]
         IN IF sub.raised THEN Outcome(TRUE, out.res, it)
            ELSE dict_loop_not_folded(which, vs, index + 1, globs,
                    Outcome(FALSE,
                        [out.res EXCEPT !.subitems = Append(@, sub.res)], it))

RECURSIVE iterable_loop_first_child(_, _, _, _)
\* Mutant of iterable_loop: every element against the first subitem, however
\* many are declared.
iterable_loop_first_child(vs, index, globs, out) ==
    IF index > Len(vs) THEN out
    ELSE LET sub == type_check_nested_type(out.item.subitems[1], vs[index], globs)
             it == [out.item EXCEPT !.subitems[1] = sub.item]
         IN IF sub.raised THEN Outcome(TRUE, out.res, it)
            ELSE iterable_loop_first_child(vs, index + 1, globs,
                    Outcome(FALSE,
                        [out.res EXCEPT
                            !.subitems = Append(@, sub.res),
                            !.result = @ /\ (sub.res.result = @)],
                        it))

RECURSIVE iterable_loop_stop_on_failure(_, _, _, _)
\* Mutant of iterable_loop: the loop ends at the first element that fails.
iterable_loop_stop_on_failure(vs, index, globs, out) ==
    IF index > Len(vs) \/ ~AllPassedSoFar(out) THEN out
    ELSE LET which == IF Len(out.item.subitems) > 1 THEN index ELSE 1
         IN IF which > Len(out.item.subitems)
            THEN Outcome(TRUE, out.res, out.item)
            ELSE LET sub == type_check_nested_type(
                                out.item.subitems[which], vs[index], globs)
                     it == [out.item EXCEPT !.subitems[which] = sub.item]
                 IN IF sub.raised THEN Outcome(TRUE, out.res, it)
                    ELSE iterable_loop_stop_on_failure(vs, index + 1, globs,
                            Outcome(FALSE,
                                [out.res EXCEPT
                                    !.subitems = Append(@, sub.res),
                                    !.result = @ /\ (sub.res.result = @)],
                                it))

\* types.py:85-92: every subitem of a Union/Optional item against the same
\* value; out.res.result holds _result_flag.
union_loop(index, v, globs, out, flag) ==
    IF index > Len(out.item.subitems)
    THEN [out EXCEPT !.res.result = flag]
    ELSE LET sub == type_check_nested_type(out.item.subitems[index], v, globs)
             it == [out.item EXCEPT !.subitems[index] = sub.item]
         IN IF sub.raised THEN Outcome(TRUE, out.res, it)
            ELSE union_loop(index + 1, v, globs,
                    Outcome(FALSE,
                        [out.res EXCEPT !.subitems = Append(@, sub.res)], it),
                    flag \/ sub.res.result)

\* types.py:101-121: each of vs (the keys, then the values) against
\* item._subitems[which] (0-based in the source, 1-based here).
dict_loop(which, vs, index, globs, out) ==
    IF index > Len(vs) THEN out
    ELSE IF which > Len(out.item.subitems) THEN Outcome(TRUE, out.res, out.item)
    ELSE LET sub == type_check_nested_type(out.item.subitems[which], vs[index], globs)
             it == [out.item EXCEPT !.subitems[which] = sub.item]
         IN IF sub.raised THEN Outcome(TRUE, out.res, it)
            ELSE dict_loop(which, vs, index + 1, globs,
                    Outcome(FALSE,
                        [out.res EXCEPT !.subitems = Append(@, sub.res),
                                        !.result = @ /\ (sub.res.result = @)],
                        it))

\* types.py:128-143: element index against subitem index when more than one
\* subitem is declared, against the only subitem otherwise.
iterable_loop(vs, index, globs, out) ==
    IF index > Len(vs) THEN out
    ELSE LET which == IF Len(out.item.subitems) > 1 THEN index ELSE 1
         IN IF which > Len(out.item.subitems)
            THEN Outcome(TRUE, out.res, out.item)
            ELSE LET sub == type_check_nested_type(
                                out.item.subitems[which], vs[index], globs)
                     it == [out.item EXCEPT !.subitems[which] = sub.item]
                 IN IF sub.raised THEN Outcome(TRUE, out.res, it)
                    ELSE iterable_loop(vs, index + 1, globs,
                            Outcome(FALSE,
                                [out.res EXCEPT
                                    !.subitems = Append(@, sub.res),
                                    !.result = @ /\ (sub.res.result = @)],
                                it))

NoneTypeItem == SectionItem("NoneType", NoName, <<>>)

type_check_nested_type(it, v, globs) ==
    LET res0 == SectionItemTypeResult(
                    type_check_value(it.value, v, globs), it.value, TypeName(v), <<>>)
    IN IF it.value \in {"Union", "Optional"}
       THEN LET it1 == IF it.value = "Optional"
                       THEN [it EXCEPT !.subitems = Append(@, NoneTypeItem)]
                       ELSE it
            IN union_loop(1, v, globs, Outcome(FALSE, res0, it1), FALSE)
       ELSE IF it.subitems = <<>> THEN Outcome(FALSE, res0, it)
       ELSE IF IsDict(v)
       THEN LET ks == dict_loop(1, v.keys, 1, globs, Outcome(FALSE, res0, it))
            IN IF ks.raised THEN ks
               ELSE dict_loop(2, v.elems, 1, globs, ks)
       ELSE IF IsIterable(v)
       THEN iterable_loop(Elements(v), 1, globs, Outcome(FALSE, res0, it))
       ELSE LET first == it.subitems[1]
            IN Outcome(FALSE,
                  [res0 EXCEPT
                     !.subitems = Append(@,
                        SectionItemTypeResult(
                            type_check_value(first.value, v, globs),
                            first.value, TypeName(v), <<>>)),
                     !.result = @ /\ (first.value = TypeName(v))],
                  it)

\* ------------------------------------------------------------------ inputs

Tokens == {"Tuple", "Optional", "int", "[", "]", ",", " "}

RECURSIVE SeqsUpTo(_, _)
\* Every sequence over S of length at most n.
SeqsUpTo(S, n) ==
    IF n = 0 THEN {<<>>}
    ELSE LET shorter == SeqsUpTo(S, n - 1)
         IN shorter \cup {Append(s, x) : s \in shorter, x \in S}

\* Every stripped token sequence of length 1..MaxHintLen.
ShortHints == {s \in SeqsUpTo(Tokens, MaxHintLen) : s # <<>> /\ strip(s) = s}

\* A well-formed type expression, as a tree: a name, or a name with one or two
\* bracketed arguments.
TypeExpr(t, as) == [tag |-> t, args |-> as]
Leaf(t) == TypeExpr(t, <<>>)
ArgLists(S) == {<<a>> : a \in S} \cup {<<a, b>> : a \in S, b \in S}

ContainerNames == {"Tuple", "List", "Dict", "Union", "Optional"}
LeafNames == {"int", "str", "None", "bool", "Adder", "Number", "AnyStr", "NoReturn"}
CoreLeaves == {Leaf("int"), Leaf("str"), Leaf("None")}
\* the arguments of the expressions of depth two
NestedArgs ==
    {Leaf("int"),
     TypeExpr("Tuple", <<Leaf("int"), Leaf("int")>>),
     TypeExpr("List", <<Leaf("int")>>),
     TypeExpr("Optional", <<Leaf("int")>>)}

TypeExprs ==
    {Leaf(n) : n \in LeafNames \cup ContainerNames}
    \cup {TypeExpr(c, as) : c \in ContainerNames, as \in ArgLists(CoreLeaves)}
    \cup {TypeExpr(c, as) : c \in ContainerNames, as \in ArgLists(NestedArgs)}

RECURSIVE Render(_)
RECURSIVE RenderArgs(_)
\* The text of a well-formed type expression: name[arg, arg].
Render(e) ==
    IF e.args = <<>> THEN <<e.tag>>
    ELSE <<e.tag, "[">> \o RenderArgs(e.args) \o <<"]">>
RenderArgs(as) ==
    IF Len(as) = 1 THEN Render(as[1])
    ELSE Render(as[1]) \o <<",", " ">> \o RenderArgs(Tail(as))

WellFormedHints == {Render(e) : e \in TypeExprs}

\* Runtime values: scalars, strs and bytes, containers of up to MaxElems
\* elements, and dicts of up to MaxElems entries.
CoreValues == {Scalar("int"), Str(1), Scalar("NoneType")}
NestedValues ==
    {Scalar("int"), Str(1),
     TupleOf(<<Scalar("int"), Scalar("int")>>),
     TupleOf(<<Scalar("int"), Str(1)>>),
     ListOf(<<Scalar("int")>>)}
DictEntries == {<<k, v>> : k \in {Scalar("int"), Str(1)}, v \in {Scalar("int"), Str(1)}}

Values ==
    {Scalar(t) : t \in {"int", "bool", "NoneType", "Adder"}}
    \cup {Str(n) : n \in 0..MaxElems}
    \cup {Bytes(es) : es \in SeqsUpTo({Scalar("int")}, 1)}
    \cup {ListOf(es) : es \in SeqsUpTo(CoreValues, MaxElems)}
    \cup {TupleOf(es) : es \in SeqsUpTo(CoreValues, MaxElems)}
    \cup {ListOf(es) : es \in SeqsUpTo(NestedValues, MaxElems)}
    \cup {TupleOf(es) : es \in SeqsUpTo(NestedValues, MaxElems)}
    \cup {DictOf([i \in DOMAIN es |-> es[i][1]], [i \in DOMAIN es |-> es[i][2]]) :
            es \in SeqsUpTo(DictEntries, MaxElems)}

ParamName == "i"
NoItem == SectionItem("<no item>", NoName, <<>>)
NoValue == Value("<no value>", "none", <<>>, <<>>)
NoResult == SectionItemTypeResult(FALSE, "", "", <<>>)

Section(tag, its) == [section |-> tag, items |-> its]
NoSection == Section("<no section>", <<>>)
NoParameters == [n \in {} |-> NoValue]

\* The variables of parse_docstring when no docstring is parsed: the caller's
\* frame is the module of the checked function.
\* The variables of the wrapper, of the default of type_check_arguments and
\* of the section indexer, where these are not used: no decorator, the default
\* as the def statement made it, nothing indexed.
NoOptions == [type_check |-> FALSE, active |-> FALSE]
IdleOther ==
    /\ exported = {}
    /\ options = NoOptions
    /\ called = FALSE
    /\ defaults = NoParameters
    /\ section_indexes = <<>>

IdleParser ==
    /\ IdleOther
    /\ f_globals = CallerGlobals
    /\ dialect = ""
    /\ content = <<>>
    /\ docstring = <<>>
    /\ signature = <<>>
    /\ sections = <<>>

\* The variables of the type_check_arguments / type_check_rtypes calls and of
\* SectionItem.__str__, before any call.
IdleApi ==
    /\ types = NoSection
    /\ parameters = NoParameters
    /\ arguments = <<>>
    /\ rtypes = NoSection
    /\ results = NoValue
    /\ type_check_results = NoResult
    /\ rendered = <<>>
    /\ reparsed = NoItem

\* ------------------------------------------------------------------ actions

\* Type-expression parsing: every short token sequence and every well-formed
\* expression.
InitResolve ==
    /\ pc = "hint"
    /\ IdleParser
    /\ type_hint \in ShortHints \cup WellFormedHints
    /\ item = NoItem
    /\ value = NoValue
    /\ result = NoResult
    /\ IdleApi

\* Matching: a well-formed expression is parsed and then matched.
InitCheck ==
    /\ pc = "hint"
    /\ IdleParser
    /\ type_hint \in WellFormedHints
    /\ item = NoItem
    /\ value = NoValue
    /\ result = NoResult
    /\ IdleApi

\* _parse_type_hints_docstring: one item of the types section is resolved.
Resolve ==
    /\ pc = "hint"
    /\ item' = resolve_type_hints(type_hint, ParamName)
    /\ pc' = "parsed"
    /\ UNCHANGED <<type_hint, value, result>>
    /\ UNCHANGED apiVars
    /\ UNCHANGED strVars
    /\ UNCHANGED parserVars
    /\ UNCHANGED otherVars

\* A call _type_check_nested_type(item, value, globals_): it returns a result,
\* or raises and returns none; either way the item keeps what was appended.
Check(v) ==
    /\ pc = "parsed"
    /\ LET out == type_check_nested_type(item, v, globals_)
       IN /\ item' = out.item
          /\ value' = v
          /\ result' = IF out.raised THEN NoResult ELSE out.res
          /\ pc' = IF out.raised THEN "raised" ELSE "checked"
    /\ UNCHANGED type_hint
    /\ UNCHANGED apiVars
    /\ UNCHANGED strVars
    /\ UNCHANGED parserVars
    /\ UNCHANGED otherVars

NextResolve == Resolve

NextCheck ==
    \/ Resolve
    \/ \E v \in Values : Check(v)

SpecResolve == InitResolve /\ [][NextResolve]_vars

SpecCheck == InitCheck /\ [][NextCheck]_vars

\* ------------------------------------------------------------------ claims
\* Reference notions the claims are stated in.

\* "[" minus "]" among the first i tokens of s.
Depth(s, i) ==
    Cardinality({j \in 1..i : s[j] = "["}) - Cardinality({j \in 1..i : s[j] = "]"})

\* The text between the first "[" and the last token of a hint that ends in "]".
Interior(s) == SubSeq(s, FirstOpen(s) + 1, Len(s) - 1)

\* The positions of the commas of x that lie at bracket depth 0.
Cuts(x) == {i \in 1..Len(x) : x[i] = "," /\ Depth(x, i) = 0}

\* The k-th cut of x from the left; 0 before the first and Len(x) + 1 after the
\* last.
Cut(x, k) ==
    IF k = 0 THEN 0
    ELSE IF k > Cardinality(Cuts(x)) THEN Len(x) + 1
    ELSE CHOOSE c \in Cuts(x) : Cardinality({d \in Cuts(x) : d < c}) = k - 1

\* The comma-separated segments of x taken at bracket depth 0, left to right.
Segments(x) ==
    [k \in 1..(Cardinality(Cuts(x)) + 1) |->
        SubSeq(x, Cut(x, k - 1) + 1, Cut(x, k) - 1)]

\* Brackets that pair up: the depth never drops below 0 and ends at 0.
Balanced(x) ==
    /\ \A i \in 1..Len(x) : Depth(x, i) >= 0
    /\ Depth(x, Len(x)) = 0

\* A hint with brackets whose first "[" is closed by its last token, with a
\* balanced interior; or a hint with no bracket at all.
WellBracketed(s) ==
    IF \E i \in 1..Len(s) : s[i] \in {"[", "]"}
    THEN FirstOpen(s) # 0 /\ endswith_bracket(s) /\ Balanced(Interior(s))
    ELSE TRUE

RECURSIVE Expected(_, _)
\* The node a well-formed expression denotes: its nesting is the expression's.
Expected(e, name) ==
    SectionItem(sanitize_type_hint(e.tag), name,
                [i \in 1..Len(e.args) |-> Expected(e.args[i], NoName)])

\* The expression a well-formed hint renders.
ExprOf(h) == CHOOSE e \in TypeExprs : Render(e) = h

RECURSIVE HasTag(_, _)
\* Some node of the tree carries the tag.
HasTag(it, tag) ==
    \/ it.value = tag
    \/ \E i \in 1..Len(it.subitems) : HasTag(it.subitems[i], tag)

\* C1: a hint with brackets whose interior is balanced parses to a node whose
\* children are the depth-0 comma-separated segments of the interior, each
\* parsed recursively, in order; a well-formed expression parses to the tree
\* with the expression's own nesting.
C1_ChildrenAreTopLevelSegments ==
    pc = "parsed" =>
        /\ (FirstOpen(type_hint) # 0 /\ endswith_bracket(type_hint)
                /\ Balanced(Interior(type_hint)))
            => item.subitems =
                 [k \in 1..Len(Segments(Interior(type_hint))) |->
                    resolve_type_hints(strip(Segments(Interior(type_hint))[k]), NoName)]
        /\ type_hint \in WellFormedHints
            => item = Expected(ExprOf(type_hint), ParamName)

\* C1 witness: Tuple[Tuple[int, int], int] parsed to two children, the first
\* with two children of its own.
C1_Witness ==
    /\ pc = "parsed"
    /\ type_hint = <<"Tuple", "[", "Tuple", "[", "int", ",", " ", "int", "]",
                     ",", " ", "int", "]">>
    /\ Len(item.subitems) = 2
    /\ Len(item.subitems[1].subitems) = 2
    /\ item.subitems[2].subitems = <<>>

\* C10 (as claimed): no hint with unbalanced brackets is ever parsed to a node;
\* parsing it fails.
C10_UnbalancedRejected == pc = "parsed" => WellBracketed(type_hint)

Declared == resolve_type_hints(type_hint, ParamName)

\* A node the matcher treats as a union of alternatives.
IsUnionTag(tag) == tag \in {"Union", "Optional"}

\* A node with no children that is no union: the scalar rule decides it.
IsScalarNode(it) == it.subitems = <<>> /\ ~IsUnionTag(it.value)

\* The value is iterable and no mapping.
IsSequenceValue(v) == IsIterable(v) /\ ~IsDict(v)

\* Child result r records a check of value v against declared node d.
Records(r, d, v) ==
    /\ r.expected = d.value
    /\ r.actual = TypeName(v)
    /\ IsScalarNode(d) => (r.result <=> type_check_value(d.value, v, globals_))

AllPassed(rs) == \A i \in 1..Len(rs) : rs[i].result

RECURSIVE ContainersFailWithChildren(_)
\* In a result tree, a node that is no union passed only if every child
\* result below it passed.
ContainersFailWithChildren(r) ==
    /\ (~IsUnionTag(r.expected) /\ r.result) => AllPassed(r.subitems)
    /\ \A i \in 1..Len(r.subitems) : ContainersFailWithChildren(r.subitems[i])

C2_UnionChecksEveryAlternative ==
    (pc = "checked" /\ Declared.value = "Union") =>
        /\ Len(result.subitems) = Len(Declared.subitems)
        /\ \A i \in 1..Len(result.subitems) :
              Records(result.subitems[i], Declared.subitems[i], value)
        /\ result.result <=> \E i \in 1..Len(result.subitems) : result.subitems[i].result

\* C2 witness: Union[int, str] against a str: passed by the second branch, both
\* branch results present.
C2_Witness ==
    /\ pc = "checked"
    /\ type_hint = <<"Union", "[", "int", ",", " ", "str", "]">>
    /\ value = Str(1)
    /\ result.result
    /\ Len(result.subitems) = 2
    /\ ~result.subitems[1].result
    /\ result.subitems[2].result

\* C3: two declared children against a mapping: the child results are every
\* key against children[0] and then every value against children[1]; passed
\* exactly when the tag is the value's type name and every child result passed.
C3_MappingKeysThenValues ==
    (pc = "checked" /\ Len(Declared.subitems) = 2 /\ ~IsUnionTag(Declared.value)
        /\ IsDict(value)) =>
        LET n == Len(value.keys) IN
        /\ Len(result.subitems) = 2 * n
        /\ \A i \in 1..n :
              /\ Records(result.subitems[i], Declared.subitems[1], value.keys[i])
              /\ Records(result.subitems[n + i], Declared.subitems[2], value.elems[i])
        /\ result.result <=>
              (Declared.value = TypeName(value) /\ AllPassed(result.subitems))

\* C3 witness: Dict[str, str] against {str: int}: the key passed, the value
\* failed, the mapping failed.
C3_Witness ==
    /\ pc = "checked"
    /\ type_hint = <<"Dict", "[", "str", ",", " ", "str", "]">>
    /\ value = DictOf(<<Str(1)>>, <<Scalar("int")>>)
    /\ ~result.result
    /\ result.subitems[1].result
    /\ ~result.subitems[2].result

\* C4: one declared child against a non-mapping iterable: one child result per
\* element, in element order, each a check against that child; passed exactly
\* when the tag is the value's type name and every element passed.
C4_HomogeneousSequence ==
    (pc = "checked" /\ Len(Declared.subitems) = 1 /\ ~IsUnionTag(Declared.value)
        /\ IsSequenceValue(value)) =>
        /\ Len(result.subitems) = Len(Elements(value))
        /\ \A i \in 1..Len(result.subitems) :
              Records(result.subitems[i], Declared.subitems[1], Elements(value)[i])
        /\ result.result <=>
              (Declared.value = TypeName(value) /\ AllPassed(result.subitems))

\* C4 witness: List[int] against [int, str]: failed, exactly one child result
\* failed.
C4_Witness ==
    /\ pc = "checked"
    /\ type_hint = <<"List", "[", "int", "]">>
    /\ value = ListOf(<<Scalar("int"), Str(1)>>)
    /\ ~result.result
    /\ result.subitems[1].result
    /\ ~result.subitems[2].result
    /\ Len(result.subitems) = 2

\* C5: more than one declared child against a non-mapping iterable: child
\* result i is the check of element i against declared child i; passed exactly
\* when the tag is the value's type name and every positional check passed, and
\* at every depth a container with a failing child result failed.
C5_PositionalSequence ==
    (pc = "checked" /\ Len(Declared.subitems) > 1 /\ ~IsUnionTag(Declared.value)
        /\ IsSequenceValue(value)) =>
        /\ Len(result.subitems) = Len(Elements(value))
        /\ Len(result.subitems) <= Len(Declared.subitems)
        /\ \A i \in 1..Len(result.subitems) :
              Records(result.subitems[i], Declared.subitems[i], Elements(value)[i])
        /\ result.result <=>
              (Declared.value = TypeName(value) /\ AllPassed(result.subitems))
        /\ ContainersFailWithChildren(result)

\* C5 witness: Tuple[Tuple[int, int], int] against ((int, str), int): the inner
\* tuple failed on its second element, so the inner and the outer tuple failed
\* although expected and actual are both tuple.
C5_Witness ==
    /\ pc = "checked"
    /\ type_hint = <<"Tuple", "[", "Tuple", "[", "int", ",", " ", "int", "]",
                     ",", " ", "int", "]">>
    /\ value = TupleOf(<<TupleOf(<<Scalar("int"), Str(1)>>), Scalar("int")>>)
    /\ ~result.result
    /\ result.expected = result.actual
    /\ ~result.subitems[1].result
    /\ result.subitems[1].expected = result.subitems[1].actual
    /\ ~result.subitems[1].subitems[2].result
    /\ result.subitems[2].result

\* C6 (as claimed): in positional mode a sequence whose element count differs
\* from the number of declared children never raises and never passes.
C6_ArityMismatchFails ==
    (pc \in {"checked", "raised"} /\ Len(Declared.subitems) > 1
        /\ ~IsUnionTag(Declared.value) /\ IsSequenceValue(value)
        /\ Len(Elements(value)) # Len(Declared.subitems)) =>
        /\ pc = "checked"
        /\ ~result.result

\* C8 (as claimed): matching returns a result for every parsed node and every
\* value; it never raises.
C8_MatchNeverRaises == pc # "raised"

MaxArgs == 2

\* The entry of a parameter, or of the return value, before any item has been
\* checked against it: item None, result False, expected typing.Any, actual
\* None.
Unchecked == SectionItemTypeResult(FALSE, "<typing.Any>", NoName, <<>>)

\* Mutant of wrong_section: every section is accepted.
wrong_section_never(sec, tag) == FALSE

\* if types.section != "types" / if rtypes.section != "rtypes"
wrong_section(sec, tag) == sec.section # tag

\* Mutant of unsupplied: the positional arguments go to the items from the
\* first on, whether or not a keyword supplied them.
unsupplied_from_first(its, params) == its

\* [item for item in types.items if item.name not in parameters]
unsupplied(its, params) ==
    SelectSeq(its, LAMBDA it : it.name \notin DOMAIN params)

RECURSIVE assign_positional(_, _, _, _)
\* The loop over the items no keyword supplied: parameters[item.name] =
\* arguments[index], until the arguments run out.
assign_positional(its, index, args, params) ==
    IF index > Len(its) \/ index > Len(args) THEN params
    ELSE assign_positional(its, index + 1, args,
            (its[index].name :> args[index]) @@ params)

\* Mutant of check_item: expected and actual are recorded only when the check
\* fails.
check_item_labels_failures(it, v, globs) ==
    LET out == IF it.subitems # <<>> THEN type_check_nested_type(it, v, globs)
               ELSE Outcome(FALSE,
                        SectionItemTypeResult(type_check_value(it.value, v, globs),
                            it.value, TypeName(v), <<>>),
                        it)
    IN IF out.res.result
       THEN [out EXCEPT !.res.expected = "<typing.Any>", !.res.actual = NoName]
       ELSE out

\* One item against the value supplied for it: the matcher when the item has
\* subitems, a direct check of the value's type name otherwise.
check_item(it, v, globs) ==
    IF it.subitems # <<>> THEN type_check_nested_type(it, v, globs)
    ELSE Outcome(FALSE,
            SectionItemTypeResult(type_check_value(it.value, v, globs),
                it.value, TypeName(v), <<>>),
            it)

\* What the loops over a section's items have done so far: whether the matcher
\* raised, the results recorded, and the items as the matcher left them.
Progress(raised, res, its) == [raised |-> raised, results |-> res, items |-> its]

RECURSIVE arguments_loop(_, _, _, _, _)
\* for section_item in types.items: skipped when no value was supplied for it,
\* checked and recorded under its name otherwise.
arguments_loop(its, index, params, globs, acc) ==
    IF index > Len(its) THEN acc
    ELSE IF its[index].name \notin DOMAIN params
    THEN arguments_loop(its, index + 1, params, globs, acc)
    ELSE LET out == check_item(its[index], params[its[index].name], globs)
             its1 == [acc.items EXCEPT ![index] = out.item]
         IN IF out.raised THEN Progress(TRUE, acc.results, its1)
            ELSE arguments_loop(its, index + 1, params, globs,
                    Progress(FALSE,
                        (its[index].name :> out.res) @@ acc.results, its1))

RECURSIVE rtypes_loop(_, _, _, _, _)
\* for section_item in rtypes.items: each item against the one returned value;
\* the result of the last item is the one kept.
rtypes_loop(its, index, v, globs, acc) ==
    IF index > Len(its) THEN acc
    ELSE LET out == check_item(its[index], v, globs)
             its1 == [acc.items EXCEPT ![index] = out.item]
         IN IF out.raised THEN Progress(TRUE, acc.results, its1)
            ELSE rtypes_loop(its, index + 1, v, globs,
                    Progress(FALSE, out.res, its1))

\* The parameters of the checked function, in the order of the types section.
ParamNames == <<"i", "j", "k">>
\* The type expressions the items of a section are parsed from.
ApiExprs ==
    {Leaf("int"),
     TypeExpr("Tuple", <<Leaf("int"), Leaf("str")>>),
     TypeExpr("Optional", <<Leaf("int")>>)}

ApiItems(name) == {resolve_type_hints(Render(e), name) : e \in ApiExprs}

RECURSIVE ItemLists(_)
\* Every list of n items, the m-th named ParamNames[m].
ItemLists(n) ==
    IF n = 0 THEN {<<>>}
    ELSE {Append(its, it) : its \in ItemLists(n - 1), it \in ApiItems(ParamNames[n])}

\* The sections handed to type_check_arguments: every types section of up to
\* Len(ParamNames) items, and short sections under another tag.
ArgSections ==
    {Section("types", its) : its \in UNION {ItemLists(n) : n \in 0..Len(ParamNames)}}
    \cup {Section(tag, its) : tag \in {"rtypes", "arguments"},
                              its \in ItemLists(0) \cup ItemLists(1)}

\* The sections handed to type_check_rtypes: unnamed items.
RtypeItemLists ==
    {<<>>} \cup {<<a>> : a \in ApiItems(NoName)}
           \cup {<<a, b>> : a \in ApiItems(NoName), b \in ApiItems(NoName)}
RtypeSections ==
    {Section("rtypes", its) : its \in RtypeItemLists}
    \cup {Section(tag, its) : tag \in {"types", "returns"},
                              its \in {<<a>> : a \in ApiItems(NoName)}}

\* Keyword parameters: two hinted names and one the section does not hint.
KeywordNames == {"i", "j", "zz"}
KeywordValues == {Scalar("int"), Str(1)}
KeywordDicts == UNION {[D -> KeywordValues] : D \in SUBSET KeywordNames}

\* Positional arguments and returned values.
ApiValues ==
    {Scalar("int"), Str(1), Scalar("NoneType"),
     TupleOf(<<Scalar("int"), Str(1)>>),
     TupleOf(<<Scalar("int"), Str(1), Scalar("int")>>)}
Arguments == SeqsUpTo(ApiValues, MaxArgs)

\* Before a call of type_check_arguments: a section, a dict of keyword
\* parameters and a tuple of positional arguments.
InitArguments ==
    /\ types \in ArgSections
    /\ parameters \in KeywordDicts
    /\ arguments \in Arguments
    /\ rtypes = NoSection
    /\ results = NoValue

\* Before a call of type_check_rtypes: a section and the returned value.
InitRtypes ==
    /\ types = NoSection
    /\ parameters = NoParameters
    /\ arguments = <<>>
    /\ rtypes \in RtypeSections
    /\ results \in ApiValues

InitTypeCheck ==
    /\ pc = "call"
    /\ IdleParser
    /\ type_hint = <<>>
    /\ item = NoItem
    /\ value = NoValue
    /\ result = NoResult
    /\ type_check_results = NoResult
    /\ rendered = <<>>
    /\ reparsed = NoItem
    /\ InitArguments \/ InitRtypes

\* The call type_check_arguments(types, parameters, arguments): KeyError unless
\* the section is the types section; otherwise the positional arguments are
\* written into parameters, every supplied parameter starts Unchecked and the
\* items are checked in section order.
TypeCheckArguments ==
    /\ pc = "call"
    /\ types # NoSection
    /\ IF wrong_section(types, "types")
       THEN /\ pc' = "KeyError"
            /\ type_check_results' = NoResult
            /\ UNCHANGED <<types, parameters>>
       ELSE LET params1 == assign_positional(unsupplied(types.items, parameters),
                                             1, arguments, parameters)
                acc == arguments_loop(types.items, 1, params1, globals_,
                          Progress(FALSE, [p \in DOMAIN params1 |-> Unchecked],
                                   types.items))
            IN /\ pc' = IF acc.raised THEN "IndexError" ELSE "type_check_arguments"
               /\ types' = Section(types.section, acc.items)
               /\ parameters' = params1
               /\ type_check_results' = IF acc.raised THEN NoResult ELSE acc.results
    /\ UNCHANGED <<arguments, rtypes, results>>
    /\ UNCHANGED matchVars
    /\ UNCHANGED strVars
    /\ UNCHANGED parserVars
    /\ UNCHANGED otherVars

\* The call type_check_rtypes(rtypes, results): KeyError unless the section is
\* the rtypes section; otherwise the result starts Unchecked and every item is
\* checked against the returned value.
TypeCheckRtypes ==
    /\ pc = "call"
    /\ rtypes # NoSection
    /\ IF wrong_section(rtypes, "rtypes")
       THEN /\ pc' = "KeyError"
            /\ type_check_results' = NoResult
            /\ UNCHANGED rtypes
       ELSE LET acc == rtypes_loop(rtypes.items, 1, results, globals_,
                          Progress(FALSE, Unchecked, rtypes.items))
            IN /\ pc' = IF acc.raised THEN "IndexError" ELSE "type_check_rtypes"
               /\ rtypes' = Section(rtypes.section, acc.items)
               /\ type_check_results' = IF acc.raised THEN NoResult ELSE acc.results
    /\ UNCHANGED <<types, parameters, arguments, results>>
    /\ UNCHANGED matchVars
    /\ UNCHANGED strVars
    /\ UNCHANGED parserVars
    /\ UNCHANGED otherVars

NextTypeCheck == TypeCheckArguments \/ TypeCheckRtypes

SpecTypeCheck == InitTypeCheck /\ [][NextTypeCheck]_vars

\* ------------------------------------------------------ claims C11 to C20

\* The items of a section are as the parser built them: no call has written
\* into them.
Untouched(sec) ==
    \A n \in 1..Len(sec.items) : sec.items[n] \in ApiItems(sec.items[n].name)

\* C20: type_check_arguments raises KeyError exactly when the section it is
\* given is not tagged types, and type_check_rtypes exactly when its section is
\* not tagged rtypes; the call that raised returned no result and had checked
\* nothing (the items of the section are as they were handed in).
C20_WrongSectionRaisesKeyError ==
    /\ (pc # "call" /\ types # NoSection) =>
          /\ (types.section # "types") <=> (pc = "KeyError")
          /\ pc = "KeyError" => (type_check_results = NoResult /\ Untouched(types))
    /\ (pc # "call" /\ rtypes # NoSection) =>
          /\ (rtypes.section # "rtypes") <=> (pc = "KeyError")
          /\ pc = "KeyError" => (type_check_results = NoResult /\ Untouched(rtypes))

\* C20 witness: a section tagged arguments, with an Optional item whose
\* parameter was supplied, was handed to type_check_arguments, which raised.
C20_Witness ==
    /\ pc = "KeyError"
    /\ types.section = "arguments"
    /\ Len(types.items) = 1
    /\ types.items[1].value = "Optional"
    /\ "i" \in DOMAIN parameters

\* The names of the items of a section that are not keys of params, in section
\* order.
FreeNames(sec, params) ==
    LET free == SelectSeq(sec.items, LAMBDA it : it.name \notin DOMAIN params)
    IN [n \in 1..Len(free) |-> free[n].name]

Min(a, b) == IF a < b THEN a ELSE b

\* C19: a call of type_check_arguments that returns has given the n-th
\* positional argument to the n-th item of the section that no keyword
\* supplied (as far as the arguments and those items reach), has left the
\* keyword parameters as they were, and returns one entry per supplied
\* parameter: for a parameter the section has an item for, the check of that
\* item against the parameter's own value.
C19_PositionalThenChecked ==
    [][pc' = "type_check_arguments" =>
        LET free == FreeNames(types, parameters)
            taken == Min(Len(free), Len(arguments))
        IN /\ DOMAIN parameters' =
                    DOMAIN parameters \cup {free[n] : n \in 1..taken}
           /\ \A p \in DOMAIN parameters : parameters'[p] = parameters[p]
           /\ \A n \in 1..taken : parameters'[free[n]] = arguments[n]
           /\ DOMAIN type_check_results' = DOMAIN parameters'
           /\ \A n \in 1..Len(types.items) :
                LET it == types.items[n]
                IN it.name \in DOMAIN parameters' =>
                     type_check_results'[it.name] =
                        check_item(it, parameters'[it.name], globals_).res
    ]_vars

\* C19 witness: j was supplied by keyword and two positional arguments came
\* with it; the first went to i and the second to k, past j, and all three
\* have an entry.
C19_Witness ==
    /\ pc = "type_check_arguments"
    /\ Len(types.items) = 3
    /\ arguments = <<Str(1), Scalar("int")>>
    /\ DOMAIN parameters = {"i", "j", "k"}
    /\ parameters["i"] = Str(1)
    /\ parameters["j"] = Scalar("int")
    /\ parameters["k"] = Scalar("int")
    /\ DOMAIN type_check_results = {"i", "j", "k"}
    /\ type_check_results["i"].actual = "str"
    /\ type_check_results["k"].actual = "int"

\* The value itself, its elements and its keys: what a node of the result tree
\* of a match against v can have been checked against, one level down.
Parts(v) ==
    {v} \cup {Elements(v)[n] : n \in 1..Len(Elements(v))}
        \cup {v.keys[n] : n \in 1..Len(v.keys)}

RECURSIVE Labelled(_, _, _)
\* The result node r carries the tag of the type node it and the type name of
\* the value v, and so does every node below it for some child of it and some
\* part of v.
Labelled(r, it, v) ==
    /\ r.expected = it.value
    /\ r.actual = TypeName(v)
    /\ \A n \in 1..Len(r.subitems) :
          \E m \in 1..Len(it.subitems) : \E w \in Parts(v) :
                Labelled(r.subitems[n], it.subitems[m], w)

\* The item of the section that is named name, if there is one.
ItemsNamed(sec, name) ==
    {sec.items[n] : n \in {m \in 1..Len(sec.items) : sec.items[m].name = name}}

\* C11: every node of every result that type_check_arguments or
\* type_check_rtypes returns carries the tag of its type node as expected and
\* the type name of the value it was checked against as actual; the entry of
\* a supplied parameter the section has no item for carries the type name of
\* the parameter's value as actual.
C11_ExpectedActualPopulated ==
    /\ pc = "type_check_arguments" =>
          \A p \in DOMAIN type_check_results :
             /\ type_check_results[p].actual = TypeName(parameters[p])
             /\ \A it \in ItemsNamed(types, p) :
                   Labelled(type_check_results[p], it, parameters[p])
    /\ pc = "type_check_rtypes" =>
          /\ type_check_results.actual = TypeName(results)
          /\ rtypes.items # <<>> =>
                Labelled(type_check_results, rtypes.items[Len(rtypes.items)], results)

\* The part of C11 that the code keeps: the entries of the parameters the
\* section has an item for, and the result of a non-empty rtypes section.
C11_HintedEntriesPopulated ==
    /\ pc = "type_check_arguments" =>
          \A p \in DOMAIN type_check_results :
             \A it \in ItemsNamed(types, p) :
                Labelled(type_check_results[p], it, parameters[p])
    /\ (pc = "type_check_rtypes" /\ rtypes.items # <<>>) =>
          Labelled(type_check_results, rtypes.items[Len(rtypes.items)], results)

\* ------------------------------------------------------ SectionItem.__str__

\* The text of a tag: one word token, or nothing for the empty tag.
TagTokens(tag) == IF tag = "" THEN <<>> ELSE <<tag>>

RECURSIVE unfold_siblings_kept(_, _, _)
\* Mutant of unfold: a container is rendered on its own and joined to the
\* siblings before it like a leaf.
unfold_siblings_kept(items, index, so_far) ==
    IF index > Len(items) THEN so_far
    ELSE LET it == items[index]
             own == IF it.subitems # <<>>
                    THEN <<it.value, "[">>
                            \o unfold_siblings_kept(it.subitems, 1, <<>>) \o <<"]">>
                    ELSE TagTokens(it.value)
         IN unfold_siblings_kept(items, index + 1,
                IF so_far = <<>> THEN own ELSE so_far \o <<",", " ">> \o own)

RECURSIVE unfold(_, _, _)
\* _unfold(items, _result): a leaf is joined to the text so far with ", "; a
\* container replaces the text so far by value[...], the text so far being
\* handed down into its brackets.
unfold(items, index, so_far) ==
    IF index > Len(items) THEN so_far
    ELSE LET it == items[index]
         IN IF it.subitems # <<>>
            THEN unfold(items, index + 1,
                    <<it.value, "[">> \o unfold(it.subitems, 1, so_far) \o <<"]">>)
            ELSE IF so_far = <<>>
            THEN unfold(items, index + 1, TagTokens(it.value))
            ELSE unfold(items, index + 1,
                    so_far \o <<",", " ">> \o TagTokens(it.value))

\* SectionItem.__str__
str(it) ==
    IF it.subitems # <<>>
    THEN <<it.value, "[">> \o unfold(it.subitems, 1, <<>>) \o <<"]">>
    ELSE TagTokens(it.value)

\* Round trip: a well-formed type expression is parsed, the node is rendered
\* with str() and the text is parsed again.
InitRoundTrip ==
    /\ pc = "hint"
    /\ IdleParser
    /\ type_hint \in WellFormedHints
    /\ item = NoItem
    /\ value = NoValue
    /\ result = NoResult
    /\ IdleApi

\* str(item)
RenderItem ==
    /\ pc = "parsed"
    /\ rendered' = str(item)
    /\ pc' = "rendered"
    /\ UNCHANGED <<reparsed, matchVars, apiVars, parserVars>>
    /\ UNCHANGED otherVars

\* _resolve_type_hints(str(item), item.name)
ResolveAgain ==
    /\ pc = "rendered"
    /\ reparsed' = resolve_type_hints(rendered, item.name)
    /\ pc' = "reparsed"
    /\ UNCHANGED <<rendered, matchVars, apiVars, parserVars>>
    /\ UNCHANGED otherVars

NextRoundTrip == Resolve \/ RenderItem \/ ResolveAgain

SpecRoundTrip == InitRoundTrip /\ [][NextRoundTrip]_vars

\* C16: the node parsed from the text str() gives for a node is that node:
\* the same tags and the same children in the same order at every depth.
C16_RoundTrip == pc = "reparsed" => reparsed = item

\* The part of C16 that the code keeps: a node whose children are all leaves,
\* or whose only container child is its first child.
C16_RoundTripLeafSiblings ==
    (pc = "reparsed"
        /\ \A n \in 2..Len(item.subitems) : item.subitems[n].subitems = <<>>)
    => reparsed = item

\* ------------------------------------------------- docstrings and patterns
\* A line of a docstring is a sequence of tokens, like a type hint: besides
\* the tokens of a hint there are ":", "--", "@" and the words of the headers
\* and of the descriptions.

\* Pairs <<p, w>> of words of the docstrings below where p is a proper prefix
\* of w: a pattern ending in p also matches a line that goes on with w.
WordPrefixes ==
    {<<"type", "types">>, <<"rtype", "rtypes">>, <<"return", "returns">>,
     <<"raise", "raises">>, <<"param", "params">>}

IsWordPrefix(p, w) == p = w \/ <<p, w>> \in WordPrefixes

\* A section pattern: ^tokens when exact is FALSE, ^tokens$ when it is TRUE.
PatternDescriptor(tokens, exact) == [tokens |-> tokens, exact |-> exact]

\* compile(patterns.section.pattern).search(line) is not None
search_section(pattern, line) ==
    IF pattern.exact THEN line = pattern.tokens
    ELSE LET k == Len(pattern.tokens)
         IN /\ Len(line) >= k
            /\ SubSeq(line, 1, k - 1) = SubSeq(pattern.tokens, 1, k - 1)
            /\ IsWordPrefix(pattern.tokens[k], line[k])

\* A name or value pattern (?<=before)lead.*(?=after) or, with to_end,
\* (?<=before)lead.*$ .
Regex(before, lead, after, to_end) ==
    [before |-> before, lead |-> lead, after |-> after, to_end |-> to_end]
NoRegex == Regex(<<"<no pattern>">>, <<>>, <<>>, FALSE)

\* Where a match of the regex that starts at s can end.
MatchEnds(re, line, s) ==
    IF re.to_end THEN {Len(line)}
    ELSE {e \in (s + Len(re.lead) - 1)..(Len(line) - Len(re.after)) :
            SubSeq(line, e + 1, e + Len(re.after)) = re.after}

\* Where a match of the regex can start.
MatchStarts(re, line) ==
    {s \in 1..(Len(line) + 1) :
        /\ s > Len(re.before)
        /\ SubSeq(line, s - Len(re.before), s - 1) = re.before
        /\ s + Len(re.lead) - 1 <= Len(line)
        /\ SubSeq(line, s, s + Len(re.lead) - 1) = re.lead
        /\ MatchEnds(re, line, s) # {}}

SetMin(S) == CHOOSE x \in S : \A y \in S : x <= y
SetMax(S) == CHOOSE x \in S : \A y \in S : x >= y

NoMatch == <<"<None>">>

\* compile(regex).search(line), then .group().strip(): the leftmost match, as
\* long as it can be; NoMatch when search returns None.
search(re, line) ==
    IF re = NoRegex \/ MatchStarts(re, line) = {} THEN NoMatch
    ELSE LET s == SetMin(MatchStarts(re, line))
             e == SetMax(MatchEnds(re, line, s))
         IN strip(SubSeq(line, s, e))

\* One rule of a dialect: the section it recognises and its three patterns.
SectionPattern(tag, section, name, val) ==
    [tag |-> tag, section |-> section, name |-> name, value |-> val]

\* (?<= ).*(?=:)
NameBeforeColon == Regex(<<" ">>, <<>>, <<":">>, FALSE)
\* (?<= ).*(?= --)
NameBeforeDashes == Regex(<<" ">>, <<>>, <<" ", "--">>, FALSE)
\* (?<=: ).*$
ValueAfterColon == Regex(<<":", " ">>, <<>>, <<>>, TRUE)
\* (?<=:) .*$
ValueAfterColonSpace == Regex(<<":">>, <<" ">>, <<>>, TRUE)
\* (?<=-- ).*$
ValueAfterDashes == Regex(<<"--", " ">>, <<>>, <<>>, TRUE)
\* (?<=:returns ).*$ and (?<=:rtypes ).*$
ValueAfterTag(tag) == Regex(<<":", tag, " ">>, <<>>, <<>>, TRUE)
\* " .*(?=:)" and "--\ .*$", the item patterns of the pep257 headers
NameSpaceBeforeColon == Regex(<<>>, <<" ">>, <<":">>, FALSE)
ValueDashes == Regex(<<>>, <<"--", " ">>, <<>>, TRUE)

\* The rules of each dialect, in the order the source declares them.
Pep257Sections ==
    <<SectionPattern("arguments",
        PatternDescriptor(<<"Arguments", ":">>, TRUE),
        NameSpaceBeforeColon, ValueDashes),
      SectionPattern("keywords",
        PatternDescriptor(<<"Keyword", " ", "Arguments", ":">>, TRUE),
        NameSpaceBeforeColon, ValueDashes),
      SectionPattern("raises",
        PatternDescriptor(<<"Exceptions", ":">>, TRUE),
        NameSpaceBeforeColon, ValueDashes),
      SectionPattern("returns",
        PatternDescriptor(<<"Returns", ":">>, TRUE),
        NameSpaceBeforeColon, ValueDashes),
      SectionPattern("types",
        PatternDescriptor(<<"Types", ":">>, TRUE),
        NameSpaceBeforeColon, ValueDashes),
      SectionPattern("rtypes",
        PatternDescriptor(<<"Return", " ", "Type", ":">>, TRUE),
        NameSpaceBeforeColon, ValueDashes)>>

Pep257SectionsOneline ==
    <<SectionPattern("arguments", PatternDescriptor(<<":", "arguments">>, FALSE),
        NameBeforeDashes, ValueAfterDashes),
      SectionPattern("keywords", PatternDescriptor(<<":", "keywords">>, FALSE),
        NameBeforeDashes, ValueAfterDashes),
      SectionPattern("types", PatternDescriptor(<<":", "types">>, FALSE),
        NameBeforeDashes, ValueAfterDashes),
      SectionPattern("raises", PatternDescriptor(<<":", "raises">>, FALSE),
        NameBeforeDashes, ValueAfterDashes),
      SectionPattern("returns", PatternDescriptor(<<":", "returns">>, FALSE),
        NameBeforeDashes, ValueAfterTag("returns")),
      SectionPattern("rtypes", PatternDescriptor(<<":", "rtypes">>, FALSE),
        NameBeforeDashes, ValueAfterTag("rtypes"))>>

EpytextSections ==
    <<SectionPattern("arguments", PatternDescriptor(<<"@", "param">>, FALSE),
        NameBeforeColon, ValueAfterColonSpace),
      SectionPattern("types", PatternDescriptor(<<"@", "type">>, FALSE),
        NameBeforeColon, ValueAfterColonSpace),
      SectionPattern("raises", PatternDescriptor(<<"@", "raise">>, FALSE),
        NameBeforeColon, ValueAfterColonSpace),
      SectionPattern("returns", PatternDescriptor(<<"@", "return">>, FALSE),
        NoRegex, ValueAfterColonSpace),
      SectionPattern("rtypes", PatternDescriptor(<<"@", "rtype">>, FALSE),
        NoRegex, ValueAfterColonSpace)>>

RestSections ==
    <<SectionPattern("arguments", PatternDescriptor(<<":", "param">>, FALSE),
        NameBeforeColon, ValueAfterColon),
      SectionPattern("types", PatternDescriptor(<<":", "type">>, FALSE),
        NameBeforeColon, ValueAfterColon),
      SectionPattern("returns", PatternDescriptor(<<":", "return">>, FALSE),
        NoRegex, ValueAfterColon),
      SectionPattern("rtypes", PatternDescriptor(<<":", "rtype">>, FALSE),
        NoRegex, ValueAfterColon)>>

GoogleSections ==
    <<SectionPattern("arguments", PatternDescriptor(<<"Args", ":">>, TRUE),
        NameBeforeColon, ValueAfterColon),
      SectionPattern("types", PatternDescriptor(<<"Types", ":">>, TRUE),
        NameBeforeColon, ValueAfterColon),
      SectionPattern("raises", PatternDescriptor(<<"Raises", ":">>, TRUE),
        NameBeforeColon, ValueAfterColon),
      SectionPattern("returns", PatternDescriptor(<<"Returns", ":">>, TRUE),
        NoRegex, ValueAfterColon),
      SectionPattern("rtypes",
        PatternDescriptor(<<"Return", " ", "Type", ":">>, TRUE),
        NoRegex, ValueAfterColon)>>

GoogleSectionsOneline ==
    <<SectionPattern("arguments", PatternDescriptor(<<":", "arguments">>, FALSE),
        NameBeforeColon, ValueAfterColon),
      SectionPattern("types", PatternDescriptor(<<":", "types">>, FALSE),
        NameBeforeColon, ValueAfterColon),
      SectionPattern("raises", PatternDescriptor(<<":", "raises">>, FALSE),
        NameBeforeColon, ValueAfterColon),
      SectionPattern("returns", PatternDescriptor(<<":", "returns">>, FALSE),
        NameBeforeColon, ValueAfterTag("returns")),
      SectionPattern("rtypes", PatternDescriptor(<<":", "rtype">>, FALSE),
        NameBeforeColon, ValueAfterTag("rtypes"))>>

\* ---------------------------------------------------------- parse_docstring

NoTag == "<no section>"

\* The inner loop of _parse_section_indexes: every rule is tried and each rule
\* that matches overwrites the entry of the line, so the last one stays.
section_of(line, rules) ==
    LET hits == {k \in 1..Len(rules) : search_section(rules[k].section, line)}
    IN IF hits = {} THEN NoTag ELSE rules[SetMax(hits)].tag

\* docstring[index] = line.strip(), for every line
strip_lines(doc) == [n \in 1..Len(doc) |-> strip(doc[n])]

\* _parse_section_indexes: the section of every line of the stripped docstring
\* (NoTag for the lines that are not keys of _section_indexes).
parse_section_indexes(doc, rules) ==
    [n \in 1..Len(doc) |-> section_of(doc[n], rules)]

RECURSIVE oneline_loop_header_lines(_, _, _, _, _)
\* Mutant of oneline_loop: a header becomes a line ":section" of its own.
oneline_loop_header_lines(doc, indexes, n, current, out) ==
    IF n > Len(doc) THEN out
    ELSE IF indexes[n] # NoTag
         THEN oneline_loop_header_lines(doc, indexes, n + 1, indexes[n],
                                        Append(out, <<":", indexes[n]>>))
    ELSE oneline_loop_header_lines(doc, indexes, n + 1, current,
            IF current = NoTag THEN Append(out, doc[n])
            ELSE Append(out, <<":", current, " ">> \o doc[n]))

RECURSIVE oneline_loop_first_header(_, _, _, _, _)
\* Mutant of oneline_loop: every body line gets the tag of the first header.
oneline_loop_first_header(doc, indexes, n, current, out) ==
    IF n > Len(doc) THEN out
    ELSE IF indexes[n] # NoTag
         THEN oneline_loop_first_header(doc, indexes, n + 1,
                 IF current = NoTag THEN indexes[n] ELSE current, out)
    ELSE oneline_loop_first_header(doc, indexes, n + 1, current,
            IF current = NoTag THEN Append(out, doc[n])
            ELSE Append(out, <<":", current, " ">> \o doc[n]))

RECURSIVE oneline_loop(_, _, _, _, _)
\* The loops of _convert_to_oneline_items: every line below a header, up to
\* the next header, becomes ":section line".
oneline_loop(doc, indexes, n, current, out) ==
    IF n > Len(doc) THEN out
    ELSE IF indexes[n] # NoTag THEN oneline_loop(doc, indexes, n + 1, indexes[n], out)
    ELSE oneline_loop(doc, indexes, n + 1, current,
            IF current = NoTag THEN Append(out, doc[n])
            ELSE Append(out, <<":", current, " ">> \o doc[n]))

\* The rule of a section.
RuleOf(rules, tag) == rules[CHOOSE k \in 1..Len(rules) : rules[k].tag = tag]

\* name.group().strip(), or None
NameOf(tokens) == IF tokens = NoMatch THEN NoName ELSE Join(tokens)

\* _collect_sections: one Section per section that heads a line, its items in
\* the order of the lines; the value of an item is kept as text here.
collect_sections(doc, indexes, rules) ==
    LET tags == {indexes[n] : n \in 1..Len(doc)} \ {NoTag}
        lines(tag) == SelectSeq([n \in 1..Len(doc) |-> n],
                                LAMBDA n : indexes[n] = tag)
    IN [tag \in tags |->
          Section(tag,
             [k \in 1..Len(lines(tag)) |->
                [value |-> search(RuleOf(rules, tag).value, doc[lines(tag)[k]]),
                 name |-> NameOf(search(RuleOf(rules, tag).name,
                                        doc[lines(tag)[k]])),
                 subitems |-> <<>>]])]

\* _parse_type_hints_docstring: every item of a types or rtypes section is
\* resolved from its text.
parse_type_hints_docstring(sec) ==
    Section(sec.section,
        [k \in 1..Len(sec.items) |->
            resolve_type_hints(sec.items[k].value, sec.items[k].name)])

\* The items of the other sections: the value is the matched text, or None.
TextItems(sec) ==
    Section(sec.section,
        [k \in 1..Len(sec.items) |->
            SectionItem(NameOf(sec.items[k].value), sec.items[k].name, <<>>)])

\* The annotation of a parameter that has none (inspect.Signature.empty).
Empty == Leaf("_empty")

RECURSIVE resolve_nested_type_hint(_, _)
\* _resolve_nested_type_hint and the two branches of _parse_type_hints around
\* it: a subscripted typing alias gives its _name and one child per __args__
\* (Optional[X].__args__ is (X, NoneType)); a class gives its __name__.
resolve_nested_type_hint(ann, name) ==
    IF ann.args = <<>> THEN SectionItem(sanitize_type_hint(ann.tag), name, <<>>)
    ELSE LET args == IF ann.tag = "Optional"
                     THEN Append(ann.args, Leaf("NoneType")) ELSE ann.args
         IN SectionItem(sanitize_type_hint(ann.tag), name,
                [k \in 1..Len(args) |-> resolve_nested_type_hint(args[k], NoName)])

\* A signature: the parameters in order, each with its annotation, and the
\* return annotation.
Signature(params, ret) == [parameters |-> params, return_annotation |-> ret]
Parameter(name, ann) == [name |-> name, annotation |-> ann]

\* _parse_type_hints: the types section and the rtypes section of the
\* signature.
parse_type_hints(sig) ==
    [types |-> Section("types",
                  [k \in 1..Len(sig.parameters) |->
                      resolve_nested_type_hint(sig.parameters[k].annotation,
                                               sig.parameters[k].name)]),
     rtypes |-> Section("rtypes",
                  <<resolve_nested_type_hint(sig.return_annotation, NoName)>>)]

\* The names of the items of a section, in order.
Names(sec) == [k \in 1..Len(sec.items) |-> sec.items[k].name]
NameSet(sec) == {sec.items[k].name : k \in 1..Len(sec.items)}

\* Mutant of reconcile: the items of the docstring's section come first, in
\* the order of their lines, and the signature's other items after them.
reconcile_docstring_order(doc_items, sig_sec) ==
    Section(sig_sec.section,
        doc_items \o SelectSeq(sig_sec.items,
                        LAMBDA it : \A k \in 1..Len(doc_items) :
                                        doc_items[k].name # it.name))

\* Mutant of reconcile: the docstring's item always replaces the signature's.
reconcile_docstring_wins(doc_items, sig_sec) ==
    Section(sig_sec.section,
        [k \in 1..Len(sig_sec.items) |->
            LET own == SelectSeq(doc_items,
                          LAMBDA it : it.name = sig_sec.items[k].name)
            IN IF own = <<>> THEN sig_sec.items[k] ELSE own[Len(own)]])

\* The reconciliation of a section of the signature with the items the
\* docstring gives for it: the signature's items, in the signature's order,
\* each replaced by the last item of the docstring under the same name when
\* the two render differently.
reconcile(doc_items, sig_sec) ==
    Section(sig_sec.section,
        [k \in 1..Len(sig_sec.items) |->
            LET own == SelectSeq(doc_items,
                          LAMBDA it : it.name = sig_sec.items[k].name)
            IN IF own # <<>> /\ str(sig_sec.items[k]) # str(own[Len(own)])
               THEN own[Len(own)] ELSE sig_sec.items[k]])

\* What a call of parse_docstring ends in: "returned" with the sections,
\* "None" (no docstring), or the name of the exception raised.
Parsed(how, secs) == [pc |-> how, sections |-> secs]
NoSections == [tag \in {} |-> NoSection]

\* Mutant of with_type_hints: a section of the signature is added only when
\* the docstring has the section too.
with_type_hints_when_documented(secs, tag, sig_sec) ==
    IF tag \in DOMAIN secs
    THEN (tag :> reconcile(secs[tag].items, sig_sec)) @@ secs
    ELSE secs

\* sections["types"] = Section(...) and sections["rtypes"] = Section(...): the
\* reconciled section is stored whether or not the docstring had one.
with_type_hints(secs, tag, sig_sec) ==
    (tag :> reconcile(IF tag \in DOMAIN secs THEN secs[tag].items ELSE <<>>,
                      sig_sec)) @@ secs

\* _parse_multiline from the collected sections on: the types and rtypes
\* sections are resolved, then reconciled with the signature.
finish_sections(raw, sig) ==
    LET typed == {"types", "rtypes"} \cap DOMAIN raw
        hints == parse_type_hints(sig)
        secs == [tag \in DOMAIN raw |->
                    IF tag \in typed THEN parse_type_hints_docstring(raw[tag])
                    ELSE TextItems(raw[tag])]
    IN IF \E tag \in typed : \E k \in 1..Len(raw[tag].items) :
                raw[tag].items[k].value = NoMatch
       THEN Parsed("TypeError", NoSections)
       ELSE IF \E tag \in typed : ~(NameSet(secs[tag]) \subseteq NameSet(hints[tag]))
       THEN Parsed("KeyError", NoSections)
       ELSE Parsed("returned",
               with_type_hints(with_type_hints(secs, "types", hints.types),
                               "rtypes", hints.rtypes))

\* _parse_multiline
parse_multiline(doc, sig, rules, oneline) ==
    IF doc = <<>> THEN Parsed("None", NoSections)
    ELSE LET split == strip_lines(SelectSeq(doc, LAMBDA line : strip(line) # <<>>))
         IN IF oneline = <<>>
            THEN finish_sections(
                    collect_sections(split, parse_section_indexes(split, rules),
                                     rules), sig)
            ELSE LET headers == parse_section_indexes(split, rules)
                     lines == oneline_loop(split, headers, 1, NoTag, <<>>)
                 IN IF \A n \in 1..Len(split) : headers[n] = NoTag
                    THEN Parsed("ValueError", NoSections)
                    ELSE finish_sections(
                            collect_sections(strip_lines(lines),
                                parse_section_indexes(strip_lines(lines), oneline),
                                oneline), sig)

\* dialect.lower(), for the identifiers below
lower(id) ==
    CASE id = "PEP257" -> "pep257"
      [] id = "NumPyDoc" -> "numpydoc"
      [] OTHER -> id

\* Mutant of parse_docstring: the reserved dialect is treated like an unknown
\* one.
parse_docstring_numpydoc_unknown(doc, sig, id) ==
    CASE lower(id) = "pep257" ->
            parse_multiline(doc, sig, Pep257Sections, Pep257SectionsOneline)
      [] lower(id) = "epytext" -> parse_multiline(doc, sig, EpytextSections, <<>>)
      [] lower(id) = "rest" -> parse_multiline(doc, sig, RestSections, <<>>)
      [] lower(id) = "google" ->
            parse_multiline(doc, sig, GoogleSections, GoogleSectionsOneline)
      [] OTHER -> Parsed("ValueError", NoSections)

\* parse_docstring: the dispatch on the dialect.
parse_docstring(doc, sig, id) ==
    CASE lower(id) = "pep257" ->
            parse_multiline(doc, sig, Pep257Sections, Pep257SectionsOneline)
      [] lower(id) = "epytext" -> parse_multiline(doc, sig, EpytextSections, <<>>)
      [] lower(id) = "rest" -> parse_multiline(doc, sig, RestSections, <<>>)
      [] lower(id) = "google" ->
            parse_multiline(doc, sig, GoogleSections, GoogleSectionsOneline)
      [] lower(id) = "numpydoc" -> Parsed("NotImplementedError", NoSections)
      [] OTHER -> Parsed("ValueError", NoSections)

\* ------------------------------------------------------ docstrings written

\* Most groups of items in a docstring.
MaxGroups == 2

\* What a docstring says: groups of items in the order of the text, each group
\* under one section; an item is a name (NoName for a return) and a text.
Group(tag, its) == [tag |-> tag, items |-> its]
Entry(name, text) == [name |-> name, text |-> text]

Description == <<"the", " ", "number">>

\* The type expressions written in docstrings.
DocExprs ==
    {Leaf("int"), Leaf("str"), Leaf("Number"),
     TypeExpr("Tuple", <<TypeExpr("List", <<Leaf("int"), Leaf("int")>>)>>)}

NamePairs == {<<"i", "j">>, <<"j", "i">>}

Groups ==
    {Group("arguments", <<Entry(a, Description)>>) : a \in {"i", "j"}}
    \cup {Group("arguments",
                <<Entry(p[1], Description), Entry(p[2], Description)>>) :
            p \in NamePairs}
    \cup {Group("raises", <<Entry("ValueError", Description)>>)}
    \cup {Group("returns", <<Entry(NoName, Description)>>)}
    \cup {Group("types", <<Entry(a, Render(e))>>) : a \in {"i", "j"}, e \in DocExprs}
    \cup {Group("types", <<Entry(p[1], Render(e)), Entry(p[2], <<"int">>)>>) :
            p \in NamePairs, e \in DocExprs}
    \cup {Group("rtypes", <<Entry(NoName, Render(e))>>) :
            e \in {Leaf("int"), Leaf("Number")}}

Contents == SeqsUpTo(Groups, MaxGroups)

\* The header of a section in the dialects that have headers.
Header(id, tag) ==
    CASE tag = "arguments" ->
            IF id = "pep257" THEN <<"Arguments", ":">> ELSE <<"Args", ":">>
      [] tag = "raises" ->
            IF id = "pep257" THEN <<"Exceptions", ":">> ELSE <<"Raises", ":">>
      [] tag = "returns" -> <<"Returns", ":">>
      [] tag = "types" -> <<"Types", ":">>
      [] tag = "rtypes" -> <<"Return", " ", "Type", ":">>

\* The word after "@" or ":" in the dialects that tag every line.
Field(tag) ==
    CASE tag = "arguments" -> "param"
      [] tag = "raises" -> "raises"
      [] tag = "returns" -> "return"
      [] tag = "types" -> "type"
      [] tag = "rtypes" -> "rtype"

Indent == <<" ", " ">>

\* The line of one item.
ItemLine(id, tag, entry) ==
    CASE id = "pep257" ->
            IF entry.name = NoName THEN entry.text
            ELSE <<entry.name, " ", "--", " ">> \o entry.text
      [] id = "google" ->
            IF entry.name = NoName THEN Indent \o entry.text
            ELSE Indent \o <<entry.name, ":", " ">> \o entry.text
      [] OTHER ->
            <<IF id = "epytext" THEN "@" ELSE ":", Field(tag)>>
            \o (IF entry.name = NoName THEN <<>> ELSE <<" ", entry.name>>)
            \o <<":", " ">> \o entry.text

\* The lines of one group: a header and a line per item, or a line per item.
GroupLines(id, group) ==
    LET its == [k \in 1..Len(group.items) |->
                    Indent \o ItemLine(id, group.tag, group.items[k])]
    IN IF id \in {"pep257", "google"}
       THEN <<Indent \o Header(id, group.tag)>> \o its \o <<Indent>>
       ELSE its

RECURSIVE AllLines(_, _)
AllLines(id, groups) ==
    IF groups = <<>> THEN <<>>
    ELSE GroupLines(id, Head(groups)) \o AllLines(id, Tail(groups))

\* The docstring that says groups in the syntax of a dialect: a summary, a
\* blank line and the groups.
Written(id, groups) == <<<<"Summary", ".">>, <<>>>> \o AllLines(id, groups)

\* The syntax a docstring is written in when the dialect asked for is not one
\* of the four that are parsed.
SyntaxOf(id) ==
    IF lower(id) \in {"pep257", "epytext", "rest", "google"} THEN lower(id)
    ELSE "rest"

\* The dialects asked for: the five of the source, two of them also in
\* another case, and one it does not know.
Dialects ==
    {"pep257", "epytext", "rest", "google", "numpydoc", "PEP257", "NumPyDoc",
     "sphinx"}

\* The signatures of the documented functions.
Signatures ==
    {Signature(<<>>, Empty),
     Signature(<<Parameter("i", Leaf("int"))>>, Leaf("int")),
     Signature(<<Parameter("i", Empty), Parameter("j", Empty)>>, Leaf("int")),
     Signature(<<Parameter("i", TypeExpr("Tuple",
                                  <<Leaf("int"), TypeExpr("List", <<Leaf("int")>>)>>)),
                 Parameter("j", Leaf("int"))>>, Empty)}

\* The variables the parser does not use.
IdleMatch ==
    /\ IdleOther
    /\ type_hint = <<>>
    /\ item = NoItem
    /\ value = NoValue
    /\ result = NoResult
    /\ IdleApi

\* Before a call of parse_docstring: a function whose docstring says content
\* in the syntax of the dialect asked for (or has no docstring at all), and
\* its signature.
InitParse ==
    /\ pc = "call"
    /\ f_globals = CallerGlobals
    /\ dialect \in Dialects
    /\ content \in Contents
    /\ docstring \in {Written(SyntaxOf(dialect), content)}
                        \cup (IF content = <<>> THEN {<<>>} ELSE {})
    /\ signature \in Signatures
    /\ sections = NoSections
    /\ IdleMatch

\* The call parse_docstring(_function, dialect).
ParseDocstring ==
    /\ pc = "call"
    /\ LET out == parse_docstring(docstring, signature, dialect)
       IN /\ pc' = out.pc
          /\ sections' = out.sections
    /\ UNCHANGED <<f_globals, dialect, content, docstring, signature>>
    /\ UNCHANGED <<matchVars, apiVars, strVars>>
    /\ UNCHANGED otherVars

NextParse == ParseDocstring

SpecParse == InitParse /\ [][NextParse]_vars

\* ------------------------------------------------- claims about the dispatch

\* The dialects parse_docstring compares dialect.lower() with; the last one is
\* reserved.
SupportedDialects == {"pep257", "epytext", "rest", "google"}
ReservedDialect == "numpydoc"

\* C12: whatever the text, a parse with the reserved dialect (numpydoc) ends
\* in NotImplementedError and a parse with an identifier that names none of
\* the five dialects ends in ValueError; NotImplementedError is raised for the
\* reserved dialect only, and in both cases no sections are returned.
C12_ReservedAndUnknownDialects ==
    pc # "call" =>
       /\ lower(dialect) = ReservedDialect
             => pc = "NotImplementedError" /\ sections = NoSections
       /\ lower(dialect) \notin SupportedDialects \cup {ReservedDialect}
             => pc = "ValueError" /\ sections = NoSections
       /\ pc = "NotImplementedError" => lower(dialect) = ReservedDialect

\* A parse of a docstring with items in it that asked for the reserved dialect.
C12_Witness ==
    /\ pc = "NotImplementedError"
    /\ dialect = "numpydoc"
    /\ Len(content) = MaxGroups
    /\ docstring # <<>>

\* ------------------------------------------ claims about the sections parsed

\* The tags of a mapping of sections, and under each tag the names of its
\* items in order.
Shape(secs) == [tag \in DOMAIN secs |-> Names(secs[tag])]

\* The parse of the same content written in the syntax of another dialect.
InDialect(id) == parse_docstring(Written(id, content), signature, id)

\* The sections a content has items for.
TagsWritten(groups) == {groups[k].tag : k \in 1..Len(groups)}

\* C13: the same content (arguments, types, raises, returns and rtypes items
\* in the same order) written in the syntax of each supported dialect parses
\* to the same section tags with as many items per section in the same order.
C13_SameSectionsInEveryDialect ==
    (pc = "returned" /\ content # <<>>) =>
       \A id \in SupportedDialects :
          /\ InDialect(id).pc = "returned"
          /\ Shape(InDialect(id).sections) = Shape(sections)

\* The same, for contents that have no raises items.
C13_SameSectionsWithoutRaises ==
    (pc = "returned" /\ content # <<>> /\ "raises" \notin TagsWritten(content)) =>
       \A id \in SupportedDialects :
          /\ InDialect(id).pc = "returned"
          /\ Shape(InDialect(id).sections) = Shape(sections)

\* The rules a dialect collects sections with.
GrammarOf(id) ==
    CASE lower(id) = "pep257" -> Pep257SectionsOneline
      [] lower(id) = "epytext" -> EpytextSections
      [] lower(id) = "rest" -> RestSections
      [] lower(id) = "google" -> GoogleSectionsOneline

\* The tags observed in the text: those the content has items for and the
\* grammar of the dialect has a rule for.
ObservedTags ==
    TagsWritten(content)
    \cap {GrammarOf(dialect)[k].tag : k \in 1..Len(GrammarOf(dialect))}

\* C14: the mapping returned has a Section for exactly the tags observed in
\* the text (a tag absent from the text, types and rtypes included, has no
\* entry) and no Section of it is an empty placeholder.
C14_ExactlyObservedTags ==
    pc = "returned" =>
       /\ DOMAIN sections = ObservedTags
       /\ \A tag \in DOMAIN sections : sections[tag].items # <<>>

\* What holds instead: the observed tags and always types and rtypes, which
\* are built from the signature; types is empty for a function without
\* parameters and no other Section is empty.
C14_ObservedAndSignatureTags ==
    pc = "returned" =>
       /\ DOMAIN sections = ObservedTags \cup {"types", "rtypes"}
       /\ \A tag \in DOMAIN sections \ {"types"} : sections[tag].items # <<>>
       /\ sections["types"].items = <<>> <=> signature.parameters = <<>>

\* The parse of a documented function without parameters whose text has no
\* types: the mapping has an empty types Section.
C14_EmptyTypesSection ==
    /\ pc = "returned"
    /\ "types" \notin TagsWritten(content)
    /\ sections["types"].items = <<>>

RECURSIVE WrittenNames(_, _)
\* The names of the items a content has under a tag, in the order of their
\* lines.
WrittenNames(groups, tag) ==
    IF groups = <<>> THEN <<>>
    ELSE (IF Head(groups).tag = tag
          THEN [k \in 1..Len(Head(groups).items) |-> Head(groups).items[k].name]
          ELSE <<>>)
         \o WrittenNames(Tail(groups), tag)

\* A sequence without the repetitions of its elements.
Distinct(seq) ==
    SelectSeq([k \in 1..Len(seq) |-> IF \E h \in 1..(k - 1) : seq[h] = seq[k]
                                     THEN NoTag ELSE seq[k]],
              LAMBDA name : name # NoTag)

\* The names of the parameters of a signature, in its order.
ParameterNames(sig) == [k \in 1..Len(sig.parameters) |-> sig.parameters[k].name]

\* C15 as stated: in every Section returned, the types section included, the
\* items appear in the order of their lines in the text (for types: the items
\* of parameters that have a line, one per parameter).
C15_ItemsInLineOrder ==
    pc = "returned" =>
       /\ \A tag \in DOMAIN sections \ {"types", "rtypes"} :
             Names(sections[tag]) = WrittenNames(content, tag)
       /\ SelectSeq(Names(sections["types"]),
                    LAMBDA name : \E k \in 1..Len(WrittenNames(content, "types")) :
                                     WrittenNames(content, "types")[k] = name)
             = Distinct(WrittenNames(content, "types"))

\* C15, amended: in every Section returned other than types and rtypes the
\* items appear in the order of their lines in the text; the items of the
\* types section appear in the order of the parameters in the signature,
\* whatever the order of the type lines, and rtypes has one item.
C15_LineOrderAndSignatureOrder ==
    pc = "returned" =>
       /\ \A tag \in DOMAIN sections \ {"types", "rtypes"} :
             Names(sections[tag]) = WrittenNames(content, tag)
       /\ Names(sections["types"]) = ParameterNames(signature)
       /\ Len(sections["rtypes"].items) = 1

\* A parse of a text whose type lines and argument lines name j before i, for
\* a function whose signature has i before j.
C15_Witness ==
    /\ pc = "returned"
    /\ WrittenNames(content, "types") = <<"j", "i">>
    /\ WrittenNames(content, "arguments") = <<"j", "i">>
    /\ ParameterNames(signature) = <<"i", "j">>
    /\ "arguments" \in DOMAIN sections

RECURSIVE WrittenTypes(_, _)
\* The type texts a content declares for a parameter, in the order of their
\* lines.
WrittenTypes(groups, name) ==
    IF groups = <<>> THEN <<>>
    ELSE (IF Head(groups).tag = "types"
          THEN SelectSeq([k \in 1..Len(Head(groups).items) |->
                             IF Head(groups).items[k].name = name
                             THEN Head(groups).items[k].text ELSE <<>>],
                         LAMBDA text : text # <<>>)
          ELSE <<>>)
         \o WrittenTypes(Tail(groups), name)

\* The type the docstring declares for a parameter: the node of its last type
\* line.
DeclaredType(name) ==
    LET texts == WrittenTypes(content, name)
    IN resolve_type_hints(texts[Len(texts)], name)

\* The node of the annotation of the k-th parameter.
AnnotatedType(k) == parse_type_hints(signature).types.items[k]

\* C18: after the reconciliation the types section has one item per parameter
\* of the signature; the item of a parameter whose declared type differs in
\* structure from its annotation is the declared type, and the item of a
\* parameter typed in the signature only is the annotation.
C18_DocstringTypeWinsWhenDifferent ==
    pc = "returned" =>
       /\ Names(sections["types"]) = ParameterNames(signature)
       /\ \A k \in 1..Len(signature.parameters) :
             LET name == signature.parameters[k].name
             IN IF WrittenTypes(content, name) = <<>>
                THEN sections["types"].items[k] = AnnotatedType(k)
                ELSE DeclaredType(name) # AnnotatedType(k)
                        => sections["types"].items[k] = DeclaredType(name)

\* The same with "differs in structure" replaced by "is rendered differently
\* by __str__", which is what the code compares.
C18_DocstringTypeWinsWhenRenderedDifferently ==
    pc = "returned" =>
       /\ Names(sections["types"]) = ParameterNames(signature)
       /\ \A k \in 1..Len(signature.parameters) :
             LET name == signature.parameters[k].name
             IN IF WrittenTypes(content, name) = <<>>
                THEN sections["types"].items[k] = AnnotatedType(k)
                ELSE str(DeclaredType(name)) # str(AnnotatedType(k))
                        => sections["types"].items[k] = DeclaredType(name)

\* ------------------------------------------------- two parses of a function

\* The globals of the modules parse_docstring is called from: one that only
\* defines the class Adder, and one that also has Number = int.
Frames ==
    {CallerGlobals,
     [n \in {"Adder", "Number"} |-> IF n = "Number" THEN "int" ELSE "Adder"]}

\* Before the first of two parses: as before one parse, from either module,
\* with at most one group of items in the text.
InitParseTwice ==
    /\ pc = "call"
    /\ f_globals \in Frames
    /\ dialect \in Dialects
    /\ content \in {c \in Contents : Len(c) <= 1}
    /\ docstring \in {Written(SyntaxOf(dialect), content)}
                        \cup (IF content = <<>> THEN {<<>>} ELSE {})
    /\ signature \in Signatures
    /\ sections = NoSections
    /\ IdleMatch

\* The next call of parse_docstring is made from another module: the first
\* frame of stack() outside parser.py is a frame of that module.
CallFrom(globs) ==
    /\ pc = "returned"
    /\ globs # f_globals
    /\ f_globals' = globs
    /\ UNCHANGED <<pc, dialect, content, docstring, signature, sections>>
    /\ UNCHANGED <<matchVars, apiVars, strVars>>
    /\ UNCHANGED otherVars

\* A second call parse_docstring(_function, dialect), of the same function
\* with the same dialect.
ParseDocstringAgain ==
    /\ pc = "returned"
    /\ LET out == parse_docstring(docstring, signature, dialect)
       IN /\ pc' = IF out.pc = "returned" THEN "returned again" ELSE out.pc
          /\ sections' = out.sections
    /\ UNCHANGED <<f_globals, dialect, content, docstring, signature>>
    /\ UNCHANGED <<matchVars, apiVars, strVars>>
    /\ UNCHANGED otherVars

NextParseTwice ==
    \/ ParseDocstring
    \/ \E globs \in Frames : CallFrom(globs)
    \/ ParseDocstringAgain

SpecParseTwice == InitParseTwice /\ [][NextParseTwice]_vars

\* C17: a second parse of the same text with the same dialect returns a
\* mapping equal to the first (same tags, same items with the same names,
\* values and nested type trees), whatever the call site and whatever was
\* parsed before.
C17_SecondParseEqualsFirst ==
    [][pc' = "returned again" => sections' = sections]_vars

\* A content that names the type Number, which only one of the modules
\* defines.
NamesNumber ==
    \E k \in 1..Len(content) : \E n \in 1..Len(content[k].items) :
       content[k].items[n].text = <<"Number">>

\* What holds instead: the second mapping can differ from the first only for
\* a text that names a type defined in the globals of one of the call sites.
C17_DiffersOnlyOnCallerNames ==
    [][(pc' = "returned again" /\ sections' # sections) => NamesNumber]_vars

\* ------------------------------------------- claims about texts at the edge

\* The dialects whose items are written on the lines below a header.
MultilineDialects == {"pep257", "google"}

\* The sections built from the signature alone.
SignatureSections ==
    with_type_hints(with_type_hints(NoSections, "types",
                                    parse_type_hints(signature).types),
                    "rtypes", parse_type_hints(signature).rtypes)

\* C27: for pep257 and google, the parse of a text that is not empty and has
\* no recognized header does not fail: its lines are summary text and the
\* mapping has no Section that comes from the docstring.
C27_NoHeaderIsNotAnError ==
    (/\ pc # "call"
     /\ lower(dialect) \in MultilineDialects
     /\ docstring # <<>>
     /\ content = <<>>)
       => pc = "returned" /\ sections = SignatureSections

\* What the code does with such a text: ValueError.
C27_NoHeaderRaisesValueError ==
    (/\ pc # "call"
     /\ lower(dialect) \in MultilineDialects
     /\ docstring # <<>>
     /\ content = <<>>)
       => pc = "ValueError" /\ sections = NoSections

\* The same text parses in the dialects that tag every line.
C27_NoTagIsNotAnError ==
    (/\ pc # "call"
     /\ lower(dialect) \in SupportedDialects \ MultilineDialects
     /\ docstring # <<>>
     /\ content = <<>>)
       => pc = "returned" /\ sections = SignatureSections

\* A description that has the name delimiters of the dialects in it.
Delimited == <<"the", ":", " ", "number", " ", "--", " ", "big">>

\* Groups at the edge of the grammars: a header without items, an item with
\* nothing after its delimiter, a description with delimiters in it, and
\* ordinary groups to go with them.
EdgeGroups ==
    {Group(tag, <<>>) : tag \in {"arguments", "types", "returns"}}
    \cup {Group(tag, <<Entry("i", <<>>)>>) : tag \in {"arguments", "types"}}
    \cup {Group(tag, <<Entry(NoName, <<>>)>>) : tag \in {"returns", "rtypes"}}
    \cup {Group("returns", <<Entry(NoName, Delimited)>>),
          Group("rtypes", <<Entry(NoName, <<"int", ":", " ", "big">>)>>),
          Group("arguments", <<Entry("i", Delimited)>>),
          Group("arguments", <<Entry("i", Description)>>),
          Group("types", <<Entry("i", <<"str">>)>>),
          Group("returns", <<Entry(NoName, Description)>>)}

EdgeContents == SeqsUpTo(EdgeGroups, MaxGroups)

\* Before a call of parse_docstring on a text at the edge of the grammar of a
\* supported dialect.
InitParseEdge ==
    /\ pc = "call"
    /\ f_globals = CallerGlobals
    /\ dialect \in SupportedDialects
    /\ content \in EdgeContents \ {<<>>}
    /\ docstring = Written(dialect, content)
    /\ signature \in Signatures
    /\ sections = NoSections
    /\ IdleMatch

SpecParseEdge == InitParseEdge /\ [][NextParse]_vars

\* The tags under which the text has a tagged line with nothing after the
\* delimiter (below a header, a line without a name and without a text is
\* blank and is no line of the docstring).
EmptyValueTags ==
    {content[k].tag : k \in
        {h \in 1..Len(content) :
            \E n \in 1..Len(content[h].items) :
               /\ content[h].items[n].text = <<>>
               /\ content[h].items[n].name # NoName
                    \/ dialect \notin MultilineDialects}}

\* A section of the mapping has an item whose value is None.
HasEmptyValue(tag) ==
    /\ tag \in DOMAIN sections
    /\ \E n \in 1..Len(sections[tag].items) : sections[tag].items[n].value = NoName

\* C28: when a tagged line does not match the value pattern of its rule, the
\* parse completes without raising, the type-expression parsing of types and
\* rtypes included, and the section has an item with an empty value.
\* (KeyError is left aside: it is raised for a name the signature lacks.)
C28_EmptyValueCompletes ==
    (pc \notin {"call", "KeyError"} /\ EmptyValueTags # {}) =>
       /\ pc = "returned"
       /\ \A tag \in EmptyValueTags \ {"types", "rtypes"} : HasEmptyValue(tag)

\* What the code does: an empty value under types or rtypes ends the parse in
\* TypeError; under the other tags the parse completes and the item has the
\* value None.
C28_EmptyTypeRaisesTypeError ==
    pc # "call" =>
       /\ EmptyValueTags \cap {"types", "rtypes"} # {} => pc = "TypeError"
       /\ (pc # "KeyError" /\ EmptyValueTags # {}
             /\ EmptyValueTags \cap {"types", "rtypes"} = {})
            => /\ pc = "returned"
               /\ \A tag \in EmptyValueTags : HasEmptyValue(tag)

\* The sections that hold a single thing and not a list of named things.
SingletonTags == {"returns", "rtypes"}

\* Every item of the singleton sections of a mapping has no name.
Nameless(secs) ==
    \A tag \in SingletonTags \cap DOMAIN secs :
       \A n \in 1..Len(secs[tag].items) : secs[tag].items[n].name = NoName

\* C29: in every supported dialect and for every text, each item of the
\* sections returns and rtypes has no name, whatever its description has in
\* it (the name delimiter of the dialect included).
C29_SingletonItemsHaveNoName ==
    pc = "returned" => Nameless(sections)

\* The same for the dialects that tag every line, whose returns and rtypes
\* rules have no name pattern.
C29_NoNameInTaggedDialects ==
    (pc = "returned" /\ dialect \notin MultilineDialects) => Nameless(sections)

\* The same for the texts whose returns and rtypes have neither ":" nor "--"
\* in them.
C29_NoNameWithoutDelimiter ==
    (/\ pc = "returned"
     /\ \A k \in 1..Len(content) : \A n \in 1..Len(content[k].items) :
           content[k].tag \in SingletonTags
              => \A h \in 1..Len(content[k].items[n].text) :
                    content[k].items[n].text[h] \notin {":", "--"})
       => Nameless(sections)

\* A group whose header has a body line: an item with a name or with a text.
HasBody(group) ==
    \E n \in 1..Len(group.items) :
       group.items[n].name # NoName \/ group.items[n].text # <<>>

\* The tags of the headers of the text that have no body line.
BodilessTags == {content[k].tag : k \in {h \in 1..Len(content) : ~HasBody(content[h])}}

\* The tags of the headers of the text that have one.
BodyTags == {content[k].tag : k \in {h \in 1..Len(content) : HasBody(content[h])}}

\* C26 as stated: a recognized header with no body line before the next
\* header or the end of the text is not an error and yields a Section for its
\* tag, with zero items when no other header of the tag has a body. (Errors
\* raised for the lines of another header are left aside.)
C26_BodilessHeaderYieldsEmptySection ==
    (/\ pc \notin {"call", "KeyError", "TypeError"}
     /\ dialect \in MultilineDialects
     /\ BodilessTags # {})
       => /\ pc = "returned"
          /\ \A tag \in BodilessTags :
                /\ tag \in DOMAIN sections
                /\ tag \notin BodyTags \cup {"types", "rtypes"}
                      => sections[tag].items = <<>>

\* C26, amended: a recognized header with no body line is not an error and
\* yields nothing: the parse ends as the parse of the text without that
\* header does, or, when no header with a body is left, returns the sections
\* of the signature alone.
C26_BodilessHeaderYieldsNothing ==
    (/\ pc # "call"
     /\ dialect \in MultilineDialects
     /\ BodilessTags # {})
       => LET left == SelectSeq(content, HasBody)
          IN IF left = <<>>
             THEN pc = "returned" /\ sections = SignatureSections
             ELSE Parsed(pc, sections)
                     = parse_docstring(Written(dialect, left), signature, dialect)

\* A parse of a text with an "Arguments:" (or "Args:") header that has no
\* body, followed by a header that has one: no arguments Section is returned.
C26_Witness ==
    /\ pc = "returned"
    /\ dialect \in MultilineDialects
    /\ Len(content) = 2
    /\ content[1] = Group("arguments", <<>>)
    /\ HasBody(content[2])
    /\ "arguments" \notin DOMAIN sections

\* ------------------------------------------------------ the section indexer

\* The section patterns rules are made of here and the tags they may carry.
IndexPatterns ==
    {PatternDescriptor(<<":", w>>, FALSE) : w \in {"type", "types", "return", "rtype"}}
IndexTags == {"types", "returns", "rtypes"}

\* The grammars handed to _parse_section_indexes: the six of the dialects,
\* and every grammar of two rules with different tags made of the patterns
\* above.
ShippedGrammars ==
    {Pep257Sections, Pep257SectionsOneline, EpytextSections, RestSections,
     GoogleSections, GoogleSectionsOneline}
Grammars ==
    ShippedGrammars
    \cup {g \in {<<SectionPattern(t1, p1, NoRegex, NoRegex),
                    SectionPattern(t2, p2, NoRegex, NoRegex)>> :
                    t1 \in IndexTags, p1 \in IndexPatterns,
                    t2 \in IndexTags, p2 \in IndexPatterns} :
             g[1].tag # g[2].tag}

\* The lines indexed.
IndexedLines ==
    {<<"Summary", ".">>,
     <<" ", " ", "Types", ":">>,
     <<":", "type", " ", "i", ":", " ", "int">>,
     <<" ", ":", "types", " ", "i", " ", "--", " ", "int">>,
     <<":", "returns", " ", "int">>,
     <<"@", "rtype", ":", " ", "int">>,
     <<":", "rtypes", " ", "int">>}

\* Before a call of _parse_section_indexes(docstring, sections).
InitIndex ==
    /\ pc = "call"
    /\ docstring \in SeqsUpTo(IndexedLines, MaxGroups) \ {<<>>}
    /\ sections \in Grammars
    /\ section_indexes = <<>>
    /\ f_globals = CallerGlobals
    /\ dialect = ""
    /\ content = <<>>
    /\ signature = <<>>
    /\ exported = {}
    /\ options = NoOptions
    /\ called = FALSE
    /\ defaults = NoParameters
    /\ type_hint = <<>>
    /\ item = NoItem
    /\ value = NoValue
    /\ result = NoResult
    /\ IdleApi

\* _parse_section_indexes(docstring, sections): the lines of the list handed
\* in are stripped in place.
ParseSectionIndexes ==
    /\ pc = "call"
    /\ pc' = "indexed"
    /\ docstring' = strip_lines(docstring)
    /\ section_indexes' = parse_section_indexes(strip_lines(docstring), sections)
    /\ UNCHANGED <<f_globals, dialect, content, signature, sections>>
    /\ UNCHANGED <<exported, options, called, defaults>>
    /\ UNCHANGED <<matchVars, apiVars, strVars>>

NextIndex == ParseSectionIndexes

SpecIndex == InitIndex /\ [][NextIndex]_vars

\* The rules of a grammar a line matches, by their place in the declaration.
Matching(line, rules) ==
    {k \in 1..Len(rules) : search_section(rules[k].section, line)}

\* The tag of the rule declared first among those a line matches.
FirstMatchTag(line, rules) ==
    IF Matching(line, rules) = {} THEN NoTag
    ELSE rules[SetMin(Matching(line, rules))].tag

C24_ShippedGrammarsTagByTheOnlyMatch ==
    (pc = "indexed" /\ sections \in ShippedGrammars) =>
       \A n \in 1..Len(docstring) :
          /\ Cardinality(Matching(docstring[n], sections)) <= 1
          /\ section_indexes[n] = FirstMatchTag(docstring[n], sections)

\* ---------------------------------------------------- the one-line normalizer

\* The grammar of headers of a dialect that has headers.
HeadersOf(id) == IF id = "pep257" THEN Pep257Sections ELSE GoogleSections

\* Before a call of _convert_to_oneline_items(docstring, sections): the lines
\* of a docstring that are not blank, and the headers of its dialect.
InitOneline ==
    /\ pc = "call"
    /\ dialect \in MultilineDialects
    /\ content \in EdgeContents
    /\ docstring = SelectSeq(Written(dialect, content),
                             LAMBDA line : strip(line) # <<>>)
    /\ sections = HeadersOf(dialect)
    /\ section_indexes = <<>>
    /\ f_globals = CallerGlobals
    /\ signature = <<>>
    /\ exported = {}
    /\ options = NoOptions
    /\ called = FALSE
    /\ defaults = NoParameters
    /\ type_hint = <<>>
    /\ item = NoItem
    /\ value = NoValue
    /\ result = NoResult
    /\ IdleApi

\* split_docstring = _convert_to_oneline_items(split_docstring, sections)
ConvertToOnelineItems ==
    /\ pc = "call"
    /\ LET split == strip_lines(docstring)
           headers == parse_section_indexes(split, sections)
       IN /\ section_indexes' = headers
          /\ IF \A n \in 1..Len(split) : headers[n] = NoTag
             THEN pc' = "ValueError" /\ docstring' = split
             ELSE /\ pc' = "converted"
                  /\ docstring' = oneline_loop(split, headers, 1, NoTag, <<>>)
    /\ UNCHANGED <<f_globals, dialect, content, signature, sections>>
    /\ UNCHANGED <<exported, options, called, defaults>>
    /\ UNCHANGED <<matchVars, apiVars, strVars>>

NextOneline == ConvertToOnelineItems

SpecOneline == InitOneline /\ [][NextOneline]_vars

\* The places of the header lines among the lines.
HeaderPlaces(lines, rules) ==
    {n \in 1..Len(lines) : Matching(strip(lines[n]), rules) # {}}

\* The header nearest above a line.
HeaderAbove(lines, rules, n) ==
    SetMax({h \in HeaderPlaces(lines, rules) : h < n})

\* The places of the body lines: the lines below the first header that are
\* not headers.
BodyPlaces(lines, rules) ==
    {n \in 1..Len(lines) :
        /\ n \notin HeaderPlaces(lines, rules)
        /\ \E h \in HeaderPlaces(lines, rules) : h < n}

\* The places of a set in increasing order.
RECURSIVE Sorted(_)
Sorted(S) == IF S = {} THEN <<>> ELSE <<SetMin(S)>> \o Sorted(S \ {SetMin(S)})

CheckAgain ==
    /\ pc = "checked"
    /\ LET out == type_check_nested_type(item, value, globals_)
       IN /\ item' = out.item
          /\ result' = IF out.raised THEN NoResult ELSE out.res
          /\ pc' = IF out.raised THEN "raised" ELSE "checked again"
    /\ UNCHANGED <<type_hint, value>>
    /\ UNCHANGED apiVars
    /\ UNCHANGED strVars
    /\ UNCHANGED parserVars
    /\ UNCHANGED otherVars

NextCheckTwice ==
    \/ Resolve
    \/ \E v \in Values : Check(v)
    \/ CheckAgain

SpecCheckTwice == InitCheck /\ [][NextCheckTwice]_vars

\* C22: matching never changes the node it is given: after a second match of
\* a parsed node against the same value the node is as parsing produced it,
\* and the second result equals the first, child results included.
C22_MatchLeavesNodeAlone ==
    [][pc' = "checked again" => (item' = Declared /\ result' = result)]_vars

\* The hint has the word Optional in it.
HasOptional == \E n \in 1..Len(type_hint) : type_hint[n] = "Optional"

\* What holds instead: a node without Optional in it is never changed and
\* its second result equals the first.
C22_NodesWithoutOptionalLeftAlone ==
    [][(pc' = "checked again" /\ ~HasOptional)
          => (item' = Declared /\ result' = result)]_vars

\* And every match of a node declared Optional[...] appends one more NoneType
\* child to it.
C22_OptionalGrowsWithEveryMatch ==
    [][(pc' = "checked again" /\ item.value = "Optional")
          => Len(item'.subitems) = Len(item.subitems) + 1]_vars

\* ------------------------------------- calls that leave parameters to default

\* The default of globals_ in type_check_arguments and type_check_rtypes: the
\* globals of doc_log/types.py, without the alias a caller may hand in.
ModuleGlobals == [n \in DOMAIN globals_ \ {"Number"} |-> globals_[n]]

\* type_check_arguments(types, parameters, arguments) for a types section:
\* what it raises or returns, and the dict parameters after the call.
type_check_arguments(sec, params, args, globs) ==
    LET params1 == assign_positional(unsupplied(sec.items, params), 1, args, params)
        acc == arguments_loop(sec.items, 1, params1, globs,
                  Progress(FALSE, [p \in DOMAIN params1 |-> Unchecked], sec.items))
    IN [pc |-> IF acc.raised THEN "IndexError" ELSE "type_check_arguments",
        parameters |-> params1,
        results |-> IF acc.raised THEN NoResult ELSE acc.results]

\* The types sections of the calls below: up to two items, none of them
\* Optional (the matcher writes into an Optional item).
PlainSections ==
    {sec \in ArgSections :
        /\ sec.section = "types"
        /\ Len(sec.items) <= MaxArgs
        /\ \A n \in 1..Len(sec.items) : sec.items[n].value # "Optional"}

\* Before the first call: the default of parameters is the empty dict the def
\* statement made.
InitDefault ==
    /\ pc = "call"
    /\ IdleParser
    /\ type_hint = <<>>
    /\ item = NoItem
    /\ value = NoValue
    /\ result = NoResult
    /\ type_check_results = NoResult
    /\ rendered = <<>>
    /\ reparsed = NoItem
    /\ types \in PlainSections
    /\ parameters = NoParameters
    /\ arguments = <<>>
    /\ rtypes = NoSection
    /\ results = NoValue

\* A call type_check_arguments(types=types, arguments=args): parameters is
\* the default, the one dict every such call shares.
CallWithDefault(args, then) ==
    LET out == type_check_arguments(types, defaults, args, ModuleGlobals)
    IN /\ pc' = IF out.pc = "type_check_arguments" THEN then ELSE out.pc
       /\ arguments' = args
       /\ parameters' = out.parameters
       /\ defaults' = out.parameters
       /\ type_check_results' = out.results
       /\ UNCHANGED <<types, rtypes, results>>
       /\ UNCHANGED <<exported, options, called, section_indexes>>
       /\ UNCHANGED <<matchVars, strVars, parserVars>>

\* A call type_check_arguments(types=types, parameters=params, arguments=args)
\* with a dict of its own.
CallWithParameters(params, args, then) ==
    LET out == type_check_arguments(types, params, args, ModuleGlobals)
    IN /\ pc' = IF out.pc = "type_check_arguments" THEN then ELSE out.pc
       /\ arguments' = args
       /\ parameters' = out.parameters
       /\ type_check_results' = out.results
       /\ UNCHANGED <<types, rtypes, results>>
       /\ UNCHANGED otherVars
       /\ UNCHANGED <<matchVars, strVars, parserVars>>

FirstCall ==
    /\ pc = "call"
    /\ \E args \in Arguments : CallWithDefault(args, "called")

LaterCallWithDefault ==
    /\ pc = "called"
    /\ \E args \in Arguments : CallWithDefault(args, "called again")

LaterCallWithParameters ==
    /\ pc = "called"
    /\ \E params \in {NoParameters, [n \in {"i"} |-> Str(1)]} :
       \E args \in Arguments : CallWithParameters(params, args, "called with")

NextDefault == FirstCall \/ LaterCallWithDefault \/ LaterCallWithParameters

SpecDefault == InitDefault /\ [][NextDefault]_vars

\* C23: type_check_arguments keeps nothing between calls: a call made after
\* an earlier call that passed positional arguments and no parameters returns
\* what the same call returns when it is the first one, with the same
\* parameter entries.
C23_LaterCallAsFirstCall ==
    [][pc' = "called again"
          => type_check_results'
                = type_check_arguments(types, NoParameters, arguments',
                                       ModuleGlobals).results]_vars

\* What holds instead: the later call returns what the call with the entries
\* the earlier calls left in the default dict returns, and a call that hands
\* in a dict of its own is not touched by earlier calls.
C23_LaterCallSeesEarlierEntries ==
    [][/\ pc' = "called again"
          => type_check_results'
                = type_check_arguments(types, parameters, arguments',
                                       ModuleGlobals).results
       /\ pc' = "called with"
          => defaults' = defaults]_vars

\* --------------------------------------------------------- recursion depth

RECURSIVE NestingDepth(_)
RECURSIVE deepest_child(_, _)
\* The nesting depth of a type node: 0 for a node without children, one more
\* than its deepest child otherwise.
NestingDepth(it) ==
    IF it.subitems = <<>> THEN 0 ELSE 1 + deepest_child(it.subitems, 1)

deepest_child(subs, index) ==
    IF index > Len(subs) THEN 0
    ELSE LET here == NestingDepth(subs[index])
             rest == deepest_child(subs, index + 1)
         IN IF here > rest THEN here ELSE rest

\* One recursive call the matcher is about to make: the node and the value it
\* passes on.  A missing call is a lookup item._subitems[n] that raises
\* IndexError before any call is made.
Call(it, v) == [missing |-> FALSE, item |-> it, value |-> v]
MissingCall == [missing |-> TRUE, item |-> NoItem, value |-> NoValue]

RECURSIVE recursion_depth_same_node(_, _)
RECURSIVE deepest_call_same_node(_, _, _)
\* Mutant of recursion_depth: a str is matched against the node itself
\* rather than against a child of it, one character shorter each time.
recursion_depth_same_node(it, v) ==
    LET it1 == IF it.value = "Optional"
               THEN [it EXCEPT !.subitems = Append(@, NoneTypeItem)]
               ELSE it
        subs == it1.subitems
        calls ==
            IF it.value \in {"Union", "Optional"}
            THEN [n \in 1..Len(subs) |-> Call(subs[n], v)]
            ELSE IF subs = <<>> THEN <<>>
            ELSE IF IsDict(v)
            THEN [n \in 1..Len(v.keys) |-> Call(subs[1], v.keys[n])]
                 \o [n \in 1..Len(v.elems) |->
                        IF Len(subs) < 2 THEN MissingCall
                        ELSE Call(subs[2], v.elems[n])]
            ELSE IF v.kind = "str"
            THEN [n \in 1..Len(v.elems) |-> Call(it, Str(Len(v.elems) - 1))]
            ELSE IF IsIterable(v)
            THEN [n \in 1..Len(Elements(v)) |->
                    LET which == IF Len(subs) > 1 THEN n ELSE 1
                    IN IF which > Len(subs) THEN MissingCall
                       ELSE Call(subs[which], Elements(v)[n])]
            ELSE <<>>
    IN deepest_call_same_node(calls, 1, 0)

deepest_call_same_node(calls, index, deepest) ==
    IF index > Len(calls) \/ calls[index].missing THEN deepest
    ELSE LET c == calls[index]
             here == 1 + recursion_depth_same_node(c.item, c.value)
             more == IF here > deepest THEN here ELSE deepest
         IN IF type_check_nested_type(c.item, c.value, globals_).raised
            THEN more
            ELSE deepest_call_same_node(calls, index + 1, more)

RECURSIVE recursion_depth(_, _)
RECURSIVE deepest_call(_, _, _)
\* types.py:57-167: how many calls of type_check_nested_type are nested inside
\* the call for node it and value v at the deepest point.  The calls are those
\* of the Union/Optional loop, of the key and value loops of a dict and of the
\* element loop of any other iterable, in the order they are made; a loop ends
\* where a call or a lookup raises.
recursion_depth(it, v) ==
    LET it1 == IF it.value = "Optional"
               THEN [it EXCEPT !.subitems = Append(@, NoneTypeItem)]
               ELSE it
        subs == it1.subitems
        calls ==
            IF it.value \in {"Union", "Optional"}
            THEN [n \in 1..Len(subs) |-> Call(subs[n], v)]
            ELSE IF subs = <<>> THEN <<>>
            ELSE IF IsDict(v)
            THEN [n \in 1..Len(v.keys) |-> Call(subs[1], v.keys[n])]
                 \o [n \in 1..Len(v.elems) |->
                        IF Len(subs) < 2 THEN MissingCall
                        ELSE Call(subs[2], v.elems[n])]
            ELSE IF IsIterable(v)
            THEN [n \in 1..Len(Elements(v)) |->
                    LET which == IF Len(subs) > 1 THEN n ELSE 1
                    IN IF which > Len(subs) THEN MissingCall
                       ELSE Call(subs[which], Elements(v)[n])]
            ELSE <<>>
    IN deepest_call(calls, 1, 0)

deepest_call(calls, index, deepest) ==
    IF index > Len(calls) \/ calls[index].missing THEN deepest
    ELSE LET c == calls[index]
             here == 1 + recursion_depth(c.item, c.value)
             more == IF here > deepest THEN here ELSE deepest
         IN IF type_check_nested_type(c.item, c.value, globals_).raised
            THEN more
            ELSE deepest_call(calls, index + 1, more)

\* The number of opening brackets of a type expression.
Brackets(hint) == Cardinality({n \in 1..Len(hint) : hint[n] = "["})

WrapperContents ==
    {c \in SeqsUpTo(Groups, 1) :
        \A k \in 1..Len(c) : c[k].tag \in {"types", "rtypes"}}

\* Before the package is imported.  exported holds the names bound in the
\* module doc_log.parser: those its own top-level statements bind, or those
\* and _get_context_frame, bound there by the importing program beforehand.
\* options are the arguments of doc_log(dialect, type_check,
\* _active_type_check); the decorated function has the given signature and
\* docstring.  The frame parse_docstring finds outside doc_log/parser.py is
\* the wrapper's, so the globals it looks names up in are those of
\* doc_log/__init__.py (the ones that have a __name__).
InitWrapper ==
    LET ParserNames == {"LOGGER", "PatternDescriptor", "SectionPattern",
                        "SectionItem", "Section", "parse_docstring"}
        PackageGlobals ==
            [n \in {"datetime", "FrameInfo", "getmodule", "stack", "wraps",
                    "logging", "parse_docstring", "type_check_arguments",
                    "type_check_rtypes", "doc_log"} |-> n]
    IN /\ pc = "module"
       /\ exported \in {ParserNames, ParserNames \cup {"_get_context_frame"}}
       /\ options \in [type_check : BOOLEAN, active : BOOLEAN]
       /\ called = FALSE
       /\ defaults = NoParameters
       /\ section_indexes = <<>>
       /\ f_globals = PackageGlobals
       /\ dialect \in SupportedDialects
       /\ content \in WrapperContents
       /\ docstring \in {Written(SyntaxOf(dialect), content)}
                           \cup (IF content = <<>> THEN {<<>>} ELSE {})
       /\ signature \in Signatures
       /\ sections = NoSections
       /\ type_hint = <<>>
       /\ item = NoItem
       /\ value = NoValue
       /\ result = NoResult
       /\ IdleApi
       /\ rendered = <<>>
       /\ reparsed = NoItem

\* import doc_log: the from-import at the top of the package needs both names
\* in doc_log.parser.
ImportPackage ==
    /\ pc = "module"
    /\ pc' = IF {"parse_docstring", "_get_context_frame"} \subseteq exported
             THEN "imported"
             ELSE "ImportError"
    /\ UNCHANGED <<matchVars, apiVars, strVars, parserVars, otherVars>>

\* One call wrapper(*args) of the decorated function, which returns ret when
\* it is invoked.  A failed result is reported by formatting a message with
\* section_item_result.item.lineno, for the TypeError of an active check and
\* for the warning of a passive one alike.
Wrapper(args, ret) ==
    LET SectionItemAttributes == {"value", "_subitems", "name"}
        report(active) ==
            IF "lineno" \notin SectionItemAttributes THEN "AttributeError"
            ELSE IF active THEN "TypeError"
            ELSE "warned"
        before(rules) ==
            IF docstring = <<>> THEN "invoke"
            ELSE IF rules.pc # "returned" THEN rules.pc
            ELSE IF ~options.type_check THEN "invoke"
            ELSE IF "types" \notin DOMAIN rules.sections THEN "invoke"
            ELSE LET checked == type_check_arguments(
                                    rules.sections["types"], NoParameters,
                                    args, ModuleGlobals)
                 IN IF checked.pc # "type_check_arguments" THEN checked.pc
                    ELSE IF /\ \E p \in DOMAIN checked.results :
                                    ~checked.results[p].result
                            /\ report(options.active) # "warned"
                    THEN report(options.active)
                    ELSE "invoke"
        after(rules) ==
            IF docstring = <<>> \/ ~options.type_check THEN "returned"
            ELSE IF "rtypes" \notin DOMAIN rules.sections THEN "returned"
            ELSE LET its == rules.sections["rtypes"].items
                     returned == rtypes_loop(its, 1, ret, ModuleGlobals,
                                    Progress(FALSE, Unchecked, its))
                 IN IF returned.raised THEN "IndexError"
                    ELSE IF /\ ~returned.results.result
                            /\ report(options.active) # "warned"
                    THEN report(options.active)
                    ELSE "returned"
    IN /\ pc = "imported"
       /\ Len(args) = Len(signature.parameters)
       /\ \E rules \in {parse_docstring(docstring, signature, dialect)} :
          \E outcome \in {before(rules)} :
            /\ arguments' = args
            /\ sections' = IF docstring # <<>> /\ rules.pc = "returned"
                           THEN rules.sections ELSE NoSections
            /\ called' = (outcome = "invoke")
            /\ results' = IF outcome = "invoke" THEN ret ELSE NoValue
            /\ pc' = IF outcome = "invoke" THEN after(rules) ELSE outcome
       /\ UNCHANGED <<types, parameters, rtypes, type_check_results>>
       /\ UNCHANGED <<f_globals, dialect, content, docstring, signature>>
       /\ UNCHANGED <<exported, options, defaults, section_indexes>>
       /\ UNCHANGED <<matchVars, strVars>>

NextWrapper ==
    \/ ImportPackage
    \/ \E args \in Arguments, ret \in ApiValues : Wrapper(args, ret)

SpecWrapper == InitWrapper /\ [][NextWrapper]_vars

\* The wrapper was called with an argument that fails its type check: the
\* docstring was parsed and type_check_arguments returned a failed result.
FailingArgument ==
    /\ pc \notin {"module", "imported", "ImportError"}
    /\ options.type_check
    /\ "types" \in DOMAIN sections
    /\ LET checked == type_check_arguments(sections["types"], NoParameters,
                                           arguments, ModuleGlobals)
       IN /\ checked.pc = "type_check_arguments"
          /\ \E p \in DOMAIN checked.results : ~checked.results[p].result

\* C21: the decorator can be imported, and with type_check and
\* _active_type_check set a call with an argument that fails its type check
\* raises TypeError without invoking the wrapped function.
C21_FailingArgumentRaisesTypeError ==
    /\ pc # "ImportError"
    /\ (FailingArgument /\ options.active) => (pc = "TypeError" /\ ~called)

\* What holds instead: the package as its own statements leave it is never
\* imported;
C21_ImportFails ==
    "_get_context_frame" \notin exported => pc \in {"module", "ImportError"}

\* and where the name is supplied, a failing argument ends in AttributeError,
\* active or not, the wrapped function not invoked.
C21_FailingArgumentRaisesAttributeError ==
    FailingArgument => (pc = "AttributeError" /\ ~called)

\* The wrapped function is invoked only when every argument passed.
C21_InvokedOnlyWhenPassed ==
    (called /\ options.type_check /\ sections # NoSections) => ~FailingArgument

====
